---- MODULE Spec2Model ----
(***************************************************************************)
(* Conversion job lifecycle of convert4me: the convert, cancel, progress   *)
(* and download route handlers, the in-memory job registry, and the three  *)
(* converter adapters (video, image, document) as they run on the          *)
(* single-threaded event loop.  One action is one event-loop turn of one   *)
(* handler or callback; the background task's continuation after its       *)
(* adapter has settled is the step that follows at once.                   *)
(***************************************************************************)
EXTENDS Integers, Sequences, FiniteSets, TLC

\* ---------------------------------------------------------------- bounds
\* Number of conversion jobs started in one run.
MaxJobs == 2
\* Largest Duration (whole seconds) ffmpeg prints for the input.
MaxDur == 2
\* By how many seconds ffmpeg's reported time may run past MaxDur.
MaxOver == 1

\* Number of jobs the clients keep in flight at a time.
MaxRunning == 1

MaxTime == MaxDur + MaxOver

\* Durations ffmpeg prints for the inputs of a run: none it can use (0, also
\* standing for N/A), or MaxDur seconds.
Durations == {0, MaxDur}

JobIds == 1..MaxJobs

\* ------------------------------------------------------- format registry
\* src/.../utils/videoConverter.ts 149-170 (converters.ts)
videoConverters ==
    [supportedInputFormats |-> <<"mp4", "mov", "avi", "mkv", "wmv", "webm">>,
     possibleOutputFormats |-> <<"mp4", "mov", "avi", "mkv", "webm">>]

imageConverters ==
    [supportedInputFormats |-> <<"jpg", "jpeg", "png", "gif", "webp", "tiff", "avif">>,
     possibleOutputFormats |-> <<"jpg", "jpeg", "png", "webp", "avif", "tiff">>]

documentConverters ==
    [supportedInputFormats |-> <<"pdf", "docx">>,
     possibleOutputFormats |-> <<"pdf", "jpg", "jpeg", "png", "webp">>]

converters == <<videoConverters, imageConverters, documentConverters>>

\* Array.prototype.includes
Includes(arr, x) == \E i \in 1..Len(arr) : arr[i] = x

\* formats.add(format) for each format of arr, on an insertion-ordered Set
RECURSIVE AddAll(_, _)
AddAll(acc, arr) ==
    IF arr = <<>> THEN acc
    ELSE AddAll(IF Includes(acc, Head(arr)) THEN acc ELSE Append(acc, Head(arr)),
                Tail(arr))

RECURSIVE CollectOutputs(_, _, _)
CollectOutputs(acc, cs, inputFormat) ==
    IF cs = <<>> THEN acc
    ELSE CollectOutputs(
             IF Includes(Head(cs).supportedInputFormats, inputFormat)
             THEN AddAll(acc, Head(cs).possibleOutputFormats)
             ELSE acc,
             Tail(cs), inputFormat)

\* variant: the output formats of the first converter, whatever the input format
getPossibleOutputFormatsOfFirst(inputFormat) == converters[1].possibleOutputFormats

\* variant: the input format and the output format each known to some
\* converter, not necessarily the same one
isConversionSupportedByAny(inputFormat, outputFormat) ==
    /\ \E i \in 1..Len(converters) :
          Includes(converters[i].supportedInputFormats, inputFormat)
    /\ \E i \in 1..Len(converters) :
          Includes(converters[i].possibleOutputFormats, outputFormat)

getPossibleOutputFormats(inputFormat) == CollectOutputs(<<>>, converters, inputFormat)

isConversionSupported(inputFormat, outputFormat) ==
    \E i \in 1..Len(converters) :
        /\ Includes(converters[i].supportedInputFormats, inputFormat)
        /\ Includes(converters[i].possibleOutputFormats, outputFormat)

\* The formats the registry names, and two it does not.
FormatVocabulary ==
    UNION {{c.supportedInputFormats[k] : k \in 1..Len(c.supportedInputFormats)}
             \cup {c.possibleOutputFormats[k] : k \in 1..Len(c.possibleOutputFormats)} :
           c \in {converters[i] : i \in 1..Len(converters)}}
      \cup {"", "txt"}

\* ------------------------------------------------------------------ paths
\* A path is a directory and a file name split at its dots:
\* uploads/anim.GIF is [dir |-> "uploads", name |-> <<"anim", "GIF">>].
NoPath == [dir |-> "", name |-> <<>>]

\* String.prototype.toLowerCase on the strings the model uses
toLowerCase(s) ==
    CASE s = "GIF" -> "gif"
      [] s = "PDF" -> "pdf"
      [] s = "MP4" -> "mp4"
      [] OTHER -> s

\* filePath.substring(filePath.lastIndexOf('.') + 1).toLowerCase()
detectFileType(filePath) ==
    IF filePath.name = <<>> THEN ""
    ELSE toLowerCase(filePath.name[Len(filePath.name)])

\* basename(inputPath, extname(inputPath)): the name without its last extension
fileBaseName(inputPath) ==
    IF Len(inputPath.name) >= 2
    THEN SubSeq(inputPath.name, 1, Len(inputPath.name) - 1)
    ELSE inputPath.name

\* join(process.cwd(), 'output', `${fileBaseName}.${outputFormat}`)
outputPathFor(dir, inputPath, outputFormat) ==
    [dir |-> dir \o "/output", name |-> Append(fileBaseName(inputPath), outputFormat)]

\* inputPath.toLowerCase().endsWith('.pdf')
endsWithPdf(inputPath) ==
    /\ Len(inputPath.name) >= 2
    /\ toLowerCase(inputPath.name[Len(inputPath.name)]) = "pdf"

\* Files the upload handler has stored before the run, one per family, and
\* the request inputs drawn from them.
UploadedFiles ==
    { [dir |-> "uploads", name |-> <<"clip", "mp4">>],
      [dir |-> "uploads", name |-> <<"anim", "GIF">>],
      [dir |-> "uploads", name |-> <<"paper", "pdf">>],
      [dir |-> "uploads", name |-> <<"notes", "docx">>] }

RequestPaths ==
    UploadedFiles \cup { NoPath, [dir |-> "uploads", name |-> <<"ghost", "mp4">>] }

RequestFormats == {"", "mp4", "webp", "png", "pdf", "docx"}

\* ------------------------------------------------------------------ state
VARIABLES
    conversionJobs,   \* Map<jobId, ConversionJob>
    activeConversionProcesses, \* jobIds that have a process handle registered
    proc,             \* per job: state of its ffmpeg child process
    vdur,             \* per job: Duration parsed from the accumulated stderr (-1: none)
    vtime,            \* per job: last time= value ffmpeg printed
    pc,               \* per job: where its background task is suspended
    cancelPc,         \* per job: how far the cancel request accepted for it has run
    files,            \* input files that exist on disk
    outputs,          \* output files that exist on disk
    now,              \* per job: the value the next new Date() made for it returns
    atReturn,         \* the new job's record as POST /convert's handler returns (NoResp: none)
    lastResp,         \* the response a route handler is sending (NoResp: none)
    settled,          \* the adapter promise that has just settled, its awaiter still to run
    commandAvailability, \* dependencyCheck's cache of which commands the machine has
    cwd,              \* process.cwd()
    pages,            \* per job: the page conversions of its PDF, where each is suspended
    outFile,          \* per job: the output path its adapter computed when it started
    activeControllers, \* the stream controllers of the connected progress clients
    stream,           \* per client: the state of its event stream
    pingInterval,     \* the clients whose keep-alive timer is armed
    enqueued          \* per client: the chunks this turn has put on its stream

docVars == <<commandAvailability, cwd, pages>>

sseVars == <<activeControllers, stream, pingInterval, enqueued>>

vars == <<conversionJobs, activeConversionProcesses, proc, vdur, vtime, pc, cancelPc,
          files, outputs, now, atReturn, lastResp, settled, docVars, outFile, sseVars>>

NoError == "<undefined>"
NoDate == 0
NoCancel == [at |-> "idle", processKilled |-> FALSE, midFlight |-> FALSE]
NoResp == [op |-> "none", code |-> 0]
NotProbed == [probed |-> FALSE, available |-> {}]
NoOutcome == [kind |-> "none", outputPath |-> NoPath, message |-> ""]
NotSettled == [jobId |-> 0, outcome |-> NoOutcome]

\* variant: the cancel route refusing only jobs that are already cancelled
TerminalStatusesCancelledOnly == {"cancelled"}

\* the statuses the cancel route refuses, part_004 211
TerminalStatuses == {"completed", "failed", "cancelled"}

\* Number of clients that connect to the progress stream in one run.
MaxObservers == 2

Observers == 1..MaxObservers

NoChunks == [o \in Observers |-> <<>>]

\* Between turns: no route handler is writing a response, no continuation of a
\* settled promise is waiting in the microtask queue, and the chunks put on
\* the event streams have gone out.
LoopIdle == lastResp = NoResp /\ settled = NotSettled /\ enqueued = NoChunks

Init ==
    /\ conversionJobs = <<>>
    /\ activeConversionProcesses = {}
    /\ proc = [j \in JobIds |-> "none"]
    /\ vdur = [j \in JobIds |-> -1]
    /\ vtime = [j \in JobIds |-> 0]
    /\ pc = [j \in JobIds |-> "none"]
    /\ cancelPc = [j \in JobIds |-> NoCancel]
    /\ files = UploadedFiles
    /\ outputs = {}
    /\ now = [j \in JobIds |-> 1]
    /\ atReturn = NoResp
    /\ lastResp = NoResp
    /\ settled = NotSettled
    /\ commandAvailability = NotProbed
    /\ cwd = "app"
    /\ pages = [j \in JobIds |-> <<>>]
    /\ outFile = [j \in JobIds |-> NoPath]
    /\ activeControllers = {}
    /\ stream = [o \in Observers |-> "none"]
    /\ pingInterval = {}
    /\ enqueued = NoChunks

\* ------------------------------------------------------------ job records
\* variant: a job record created with its output path already filled in
NewJobWithOutputPath(jobId, filePath, inputFormat, outputFormat, createdAt) ==
    [jobId |-> jobId,
     originalFilename |-> IF filePath.name = <<>> THEN <<"unknown">> ELSE filePath.name,
     inputPath |-> filePath,
     outputPath |-> filePath,
     inputFormat |-> inputFormat,
     outputFormat |-> outputFormat,
     status |-> "processing",
     progress |-> 0,
     error |-> "<undefined>",
     createdAt |-> createdAt,
     completedAt |-> 0]

\* src/.../route.ts 211-221
NewJob(jobId, filePath, inputFormat, outputFormat, createdAt) ==
    [jobId |-> jobId,
     originalFilename |-> IF filePath.name = <<>> THEN <<"unknown">> ELSE filePath.name,
     inputPath |-> filePath,
     outputPath |-> NoPath,
     inputFormat |-> inputFormat,
     outputFormat |-> outputFormat,
     status |-> "processing",
     progress |-> 0,
     error |-> NoError,
     createdAt |-> createdAt,
     completedAt |-> NoDate]

\* progressCallback, route.ts 230-236
\* variant: the callback storing back a record it read when the job started
progressCallbackStale(jobs, jobId, progress) ==
    IF jobId \in DOMAIN jobs
    THEN [jobs EXCEPT ![jobId] = [@ EXCEPT !.progress = progress, !.status = "processing"]]
    ELSE jobs

progressCallback(jobs, jobId, progress) ==
    IF jobId \in DOMAIN jobs
    THEN [jobs EXCEPT ![jobId].progress = progress]
    ELSE jobs

\* the callback applied to each value of a sequence, in order
RECURSIVE ReportAll(_, _, _)
ReportAll(jobs, jobId, values) ==
    IF values = <<>> THEN jobs
    ELSE ReportAll(progressCallback(jobs, jobId, Head(values)), jobId, Tail(values))

\* variant: a completion write that leaves progress as the adapter left it
CompletedKeepingProgress(job, outputPath, t) ==
    [job EXCEPT !.status = "completed", !.outputPath = outputPath, !.completedAt = t]

\* completion branch, route.ts 260-268
Completed(job, outputPath, t) ==
    [job EXCEPT !.status = "completed", !.progress = 100,
                !.outputPath = outputPath, !.completedAt = t]

\* cancellation branch of the catch, route.ts 276-283
CancelledByAdapter(job, t) ==
    [job EXCEPT !.status = "cancelled", !.completedAt = t]

\* variant: a failure branch that records the message but not the status
FailedKeepingStatus(job, message) == [job EXCEPT !.error = message]

\* failure branch of the catch, route.ts 288-294
Failed(job, message) ==
    [job EXCEPT !.status = "failed", !.error = message]

\* An adapter's promise settles with one of these.
Resolved(outputPath) == [kind |-> "resolved", outputPath |-> outputPath, message |-> ""]
Rejected(message) == [kind |-> "error", outputPath |-> NoPath, message |-> message]
RejectedCancellation == [kind |-> "cancellation", outputPath |-> NoPath, message |-> "cancelled"]

\* variant: a background task without its catch, so that a rejection escapes
FinalizeWithoutCatch(jobs, jobId, outcome, t) ==
    IF jobId \notin DOMAIN jobs THEN jobs
    ELSE IF outcome.kind = "resolved"
    THEN [jobs EXCEPT ![jobId] = Completed(@, outcome.outputPath, t)]
    ELSE jobs

\* what the background task writes once the adapter has settled, route.ts 260-298
Finalize(jobs, jobId, outcome, t) ==
    IF jobId \notin DOMAIN jobs THEN jobs
    ELSE CASE outcome.kind = "resolved" ->
                [jobs EXCEPT ![jobId] = Completed(@, outcome.outputPath, t)]
           [] outcome.kind = "cancellation" ->
                [jobs EXCEPT ![jobId] = CancelledByAdapter(@, t)]
           [] OTHER ->
                [jobs EXCEPT ![jobId] = Failed(@, outcome.message)]

\* variant: deleteFile that never finds the file, so that no unlink is issued
DeleteNeverStarts(filePath) == FALSE

\* deleteFile up to its await: existsSync, then unlink is issued (route.ts 150-159)
DeleteStarts(filePath) == filePath \in files

\* An adapter's promise settles with `outcome`, `jobs` being the registry after
\* the progress the adapter reported in this turn.  The background task that
\* awaits the promise runs next, before any other event.
AdapterSettles(jobId, jobs, outcome) ==
    /\ conversionJobs' = jobs
    /\ pc' = [pc EXCEPT ![jobId] = "settled"]
    /\ settled' = [jobId |-> jobId, outcome |-> outcome]

\* The background task resumes after `await convert...`: the finalization
\* write and deleteFile(filePath) up to its await (route.ts 260-298).
BackgroundSettles(jobId) ==
    /\ settled.jobId = jobId
    /\ conversionJobs' = Finalize(conversionJobs, jobId, settled.outcome, now[jobId])
    /\ now' = [now EXCEPT ![jobId] =
                  IF settled.outcome.kind \in {"resolved", "cancellation"}
                  THEN @ + 1 ELSE @]
    /\ pc' = [pc EXCEPT ![jobId] =
                 IF DeleteStarts(conversionJobs[jobId].inputPath) THEN "bg_unlink"
                 ELSE "done"]
    /\ settled' = NotSettled
    /\ UNCHANGED <<activeConversionProcesses, proc, vdur, vtime, cancelPc, files,
                   outputs, atReturn, lastResp, docVars, outFile, sseVars>>

\* the record as POST /convert's caller would read it when the response is sent
Snapshot(job) ==
    [op |-> "returned", jobId |-> job.jobId, status |-> job.status, progress |-> job.progress]

\* ------------------------------------------------------ POST /api/convert
\* validation, route.ts 170-199: the response of a request that is turned away
Validate(filePath, outputFormat) ==
    IF filePath = NoPath \/ outputFormat = ""
    THEN [op |-> "convert", code |-> 400,
          message |-> "File path and output format are required"]
    ELSE IF filePath \notin files
    THEN [op |-> "convert", code |-> 404, message |-> "File not found"]
    ELSE IF ~isConversionSupported(detectFileType(filePath), outputFormat)
    THEN [op |-> "convert", code |-> 400, message |-> "is not supported",
          inputFormat |-> detectFileType(filePath),
          supportedFormats |-> getPossibleOutputFormats(detectFileType(filePath))]
    ELSE [op |-> "convert", code |-> 200, message |-> "Conversion started"]

\* adapter dispatch, route.ts 241-258
adapterFor(inputFormat) ==
    IF Includes(<<"mp4", "mov", "avi", "mkv", "wmv", "webm">>, inputFormat) THEN "video"
    ELSE IF Includes(<<"jpg", "jpeg", "png", "gif", "webp", "tiff", "avif">>, inputFormat)
    THEN "image"
    ELSE IF Includes(<<"pdf", "docx">>, inputFormat) THEN "document"
    ELSE "none"

\* uuidv4(): an identifier no earlier job has
freshJobId == Cardinality(DOMAIN conversionJobs) + 1

\* jobs whose background task or cancel request has not run to its end
InFlight == {j \in DOMAIN conversionJobs : pc[j] # "done" \/ cancelPc[j].at = "unlink"}

\* the clients start another job
CanStart == freshJobId \in JobIds /\ Cardinality(InFlight) < MaxRunning

ConvertRejected(filePath, outputFormat) ==
    /\ LoopIdle
    /\ Validate(filePath, outputFormat).code # 200
    /\ lastResp' = Validate(filePath, outputFormat)
    /\ UNCHANGED <<conversionJobs, activeConversionProcesses, proc, vdur, vtime, pc,
                   cancelPc, files, outputs, now, atReturn,
                   docVars, outFile, settled, sseVars>>

\* the response of an accepted request, route.ts 302-306
Started(jobId) ==
    [op |-> "convert", code |-> 200, message |-> "Conversion started", jobId |-> jobId]

\* Active Process Handle table: convertVideo registers the spawned process under jobId
registerProcess(handles, jobId) == handles \cup {jobId}

\* ... and removes it when the process has closed
unregisterProcess(handles, jobId) == handles \ {jobId}

\* POST /convert for a video input: the job is created and convertVideo's promise
\* executor runs up to spawn (videoConverter.ts 33-90); the response follows.
ConvertVideo(filePath, outputFormat, spawned) ==
    LET jobId == freshJobId
        inputFormat == detectFileType(filePath)
        jobs == conversionJobs @@
                  (jobId :> NewJob(jobId, filePath, inputFormat, outputFormat, now[jobId]))
    IN  /\ LoopIdle
        /\ CanStart
        /\ Validate(filePath, outputFormat).code = 200
        /\ adapterFor(inputFormat) = "video"
        /\ conversionJobs' = jobs
        /\ now' = [now EXCEPT ![jobId] = @ + 1]
        /\ proc' = [proc EXCEPT ![jobId] = IF spawned THEN "running" ELSE "spawn_error"]
        /\ activeConversionProcesses' = registerProcess(activeConversionProcesses, jobId)
        /\ pc' = [pc EXCEPT ![jobId] = "v_wait"]
        /\ atReturn' = Snapshot(jobs[jobId])
        /\ lastResp' = Started(jobId)
        /\ outFile' = [outFile EXCEPT ![jobId] = outputPathFor(cwd, filePath, outputFormat)]
        /\ UNCHANGED <<vdur, vtime, cancelPc, files, outputs, docVars, settled, sseVars>>

\* ------------------------------------------------- GET /api/socket (SSE)
\* the chunks the route puts on a stream, src/unnamed/part_006 118, 122, 151
connectedEvent == [event |-> "connected"]

pingEvent == [event |-> "ping"]

progressEvent(jobId, progress) ==
    [event |-> "progress", jobId |-> jobId, progress |-> progress]

\* controller.enqueue throws once the stream is no longer readable: the client
\* has gone away (the consumer cancelled the body) or the controller was closed
enqueueThrows(o) == stream[o] # "open"

\* sendProgressUpdate without the try/catch around enqueue: the first throwing
\* controller ends the forEach and the exception reaches the caller
sendProgressUpdateUnguarded(jobId, progress) ==
    IF \E o \in activeControllers : enqueueThrows(o)
    THEN enqueued
    ELSE [o \in Observers |->
            IF o \in activeControllers
            THEN Append(enqueued[o], progressEvent(jobId, progress))
            ELSE enqueued[o]]

\* sendProgressUpdate: one enqueue per controller of the set, each in its own
\* try/catch; the value is what every stream holds afterwards
sendProgressUpdate(jobId, progress) ==
    [o \in Observers |->
        IF o \in activeControllers /\ ~enqueueThrows(o)
        THEN Append(enqueued[o], progressEvent(jobId, progress))
        ELSE enqueued[o]]

\* GET /api/socket: start(controller) runs inside the ReadableStream
\* constructor.  Every connection has a controller of its own.
Subscribe(o) ==
    /\ LoopIdle
    /\ stream[o] = "none"
    /\ \A q \in Observers : q < o => stream[q] # "none"
    /\ activeControllers' = activeControllers \cup {o}
    /\ stream' = [stream EXCEPT ![o] = "open"]
    /\ enqueued' = [enqueued EXCEPT ![o] = Append(@, connectedEvent)]
    /\ pingInterval' = pingInterval \cup {o}
    /\ UNCHANGED <<conversionJobs, activeConversionProcesses, proc, vdur, vtime, pc,
                   cancelPc, files, outputs, now, atReturn, lastResp, settled,
                   docVars, outFile>>

\* the client goes away: its stream stops being readable before the request's
\* abort signal is dispatched
StreamCancelled(o) ==
    /\ LoopIdle
    /\ o \in activeControllers
    /\ stream[o] = "open"
    /\ stream' = [stream EXCEPT ![o] = "cancelled"]
    /\ UNCHANGED <<conversionJobs, activeConversionProcesses, proc, vdur, vtime, pc,
                   cancelPc, files, outputs, now, atReturn, lastResp, settled,
                   docVars, outFile, activeControllers, pingInterval, enqueued>>

\* abort that forgets the controller: neither deleted from the set nor closed
AbortKeepingController(o) ==
    /\ LoopIdle
    /\ o \in pingInterval
    /\ pingInterval' = pingInterval \ {o}
    /\ UNCHANGED <<conversionJobs, activeConversionProcesses, proc, vdur, vtime, pc,
                   cancelPc, files, outputs, now, atReturn, lastResp, settled,
                   docVars, outFile, activeControllers, stream, enqueued>>

\* the 'abort' listener of request.signal (dispatched once per request):
\* clearInterval, delete from the set, close.  close() on a stream that is
\* already cancelled throws after the first two statements have run.
Abort(o) ==
    /\ LoopIdle
    /\ o \in activeControllers
    /\ pingInterval' = pingInterval \ {o}
    /\ activeControllers' = activeControllers \ {o}
    /\ stream' = [stream EXCEPT ![o] = IF @ = "open" THEN "closed" ELSE @]
    /\ UNCHANGED <<conversionJobs, activeConversionProcesses, proc, vdur, vtime, pc,
                   cancelPc, files, outputs, now, atReturn, lastResp, settled,
                   docVars, outFile, enqueued>>

\* one tick of a connection's 30 s timer; its enqueue is not in a try/catch,
\* so on a stream that is no longer readable the callback throws and nothing
\* is put on the stream
Ping(o) ==
    /\ LoopIdle
    /\ o \in pingInterval
    /\ enqueued' = IF enqueueThrows(o) THEN enqueued
                   ELSE [enqueued EXCEPT ![o] = Append(@, pingEvent)]
    /\ UNCHANGED <<conversionJobs, activeConversionProcesses, proc, vdur, vtime, pc,
                   cancelPc, files, outputs, now, atReturn, lastResp, settled,
                   docVars, outFile, activeControllers, stream, pingInterval>>

\* the chunks of the last turn leave for their clients
ChunksDelivered ==
    /\ enqueued # NoChunks
    /\ enqueued' = NoChunks
    /\ UNCHANGED <<conversionJobs, activeConversionProcesses, proc, vdur, vtime, pc,
                   cancelPc, files, outputs, now, atReturn, lastResp, settled,
                   docVars, outFile, activeControllers, stream, pingInterval>>

\* --------------------------------------------------------- video adapter
\* Math.round((currentSeconds / durationSeconds) * 100), videoConverter.ts 117
videoProgress(currentSeconds, durationSeconds) ==
    (200 * currentSeconds + durationSeconds) \div (2 * durationSeconds)

\* stderr 'data' with ffmpeg's header: the first Duration in the accumulated
\* text is the one the handler matches from then on (videoConverter.ts 102).
VideoDurationChunk(jobId, d) ==
    /\ LoopIdle
    /\ pc[jobId] = "v_wait"
    /\ proc[jobId] \in {"running", "killed"}
    /\ vdur[jobId] = -1
    /\ vdur' = [vdur EXCEPT ![jobId] = d]
    /\ UNCHANGED <<conversionJobs, activeConversionProcesses, proc, vtime, pc, cancelPc,
                   files, outputs, now, atReturn,
                   docVars, outFile, settled, sseVars>>
    /\ lastResp' = NoResp

\* stderr 'data' with a time= field (videoConverter.ts 94-126).  ffmpeg prints
\* the header before its first status line and its time advances second by
\* second; a chunk repeating the last second writes the same value again and is
\* not a step of its own, nor is a chunk the handler ignores (no usable
\* Duration).  Chunks already in the pipe are still delivered after the process
\* was killed.
VideoTimeChunk(jobId) ==
    LET t == vtime[jobId] + 1
        progress == videoProgress(t, vdur[jobId])
    IN  /\ LoopIdle
        /\ pc[jobId] = "v_wait"
        /\ proc[jobId] \in {"running", "killed"}
        /\ vdur[jobId] > 0
        /\ t <= MaxTime
        /\ vtime' = [vtime EXCEPT ![jobId] = t]
        /\ conversionJobs' = progressCallback(conversionJobs, jobId, progress)
        /\ enqueued' = sendProgressUpdate(jobId, progress)
        /\ UNCHANGED <<activeConversionProcesses, proc, vdur, pc, cancelPc, files,
                       outputs, now, atReturn,
                   docVars, outFile, settled, activeControllers, stream, pingInterval>>
        /\ lastResp' = NoResp

\* what the 'close' handler settles the promise with, videoConverter.ts 129-140
videoCloseOutcome(code, outputPath) ==
    IF code = 0 THEN Resolved(outputPath)
    ELSE Rejected("FFmpeg exited with code")

\* a process ended through its handle makes the adapter fail with CancellationError
videoAbortOutcome == RejectedCancellation

\* 'close' of a process that ran to its end with exit code `code`
VideoClose(jobId, code) ==
    LET outputPath == outFile[jobId]
        reported == IF code = 0
                    THEN progressCallback(conversionJobs, jobId, 100)
                    ELSE conversionJobs
    IN  /\ LoopIdle
        /\ pc[jobId] = "v_wait"
        /\ proc[jobId] = "running"
        /\ proc' = [proc EXCEPT ![jobId] = "closed"]
        /\ vdur' = [vdur EXCEPT ![jobId] = -1]
        /\ vtime' = [vtime EXCEPT ![jobId] = 0]
        /\ activeConversionProcesses' = unregisterProcess(activeConversionProcesses, jobId)
        /\ outputs' = IF code = 0 THEN outputs \cup {outputPath} ELSE outputs
        /\ AdapterSettles(jobId, reported, videoCloseOutcome(code, outputPath))
        /\ enqueued' = IF code = 0 THEN sendProgressUpdate(jobId, 100) ELSE enqueued
        /\ UNCHANGED <<cancelPc, files, now, atReturn, docVars, outFile, activeControllers, stream, pingInterval>>
        /\ lastResp' = NoResp

\* 'close' of a process that was killed through its handle
VideoAborted(jobId) ==
    /\ LoopIdle
    /\ pc[jobId] = "v_wait"
    /\ proc[jobId] = "killed"
    /\ proc' = [proc EXCEPT ![jobId] = "closed"]
    /\ vdur' = [vdur EXCEPT ![jobId] = -1]
    /\ vtime' = [vtime EXCEPT ![jobId] = 0]
    /\ activeConversionProcesses' = unregisterProcess(activeConversionProcesses, jobId)
    /\ AdapterSettles(jobId, conversionJobs, videoAbortOutcome)
    /\ UNCHANGED <<cancelPc, files, outputs, now, atReturn, docVars, outFile, sseVars>>
    /\ lastResp' = NoResp

\* 'error' of a process that could not be spawned, videoConverter.ts 143-145
VideoSpawnError(jobId) ==
    /\ LoopIdle
    /\ pc[jobId] = "v_wait"
    /\ proc[jobId] = "spawn_error"
    /\ proc' = [proc EXCEPT ![jobId] = "closed"]
    /\ vdur' = [vdur EXCEPT ![jobId] = -1]
    /\ vtime' = [vtime EXCEPT ![jobId] = 0]
    /\ activeConversionProcesses' = unregisterProcess(activeConversionProcesses, jobId)
    /\ AdapterSettles(jobId, conversionJobs, Rejected("FFmpeg process error"))
    /\ UNCHANGED <<cancelPc, files, outputs, now, atReturn, docVars, outFile, sseVars>>
    /\ lastResp' = NoResp

\* unlink issued by the background task's deleteFile completes (route.ts 153-155)
BackgroundUnlinkDone(jobId) ==
    /\ LoopIdle
    /\ pc[jobId] = "bg_unlink"
    /\ files' = files \ {conversionJobs[jobId].inputPath}
    /\ pc' = [pc EXCEPT ![jobId] = "done"]
    /\ UNCHANGED <<conversionJobs, activeConversionProcesses, proc, vdur, vtime,
                   cancelPc, outputs, now, atReturn,
                   docVars, outFile, settled, sseVars>>
    /\ lastResp' = NoResp

\* --------------------------------------------------------- image adapter
\* the switch of convertImage, imageConverter.ts 51-70
imageFormatHandled(outputFormat) ==
    outputFormat \in {"jpg", "jpeg", "png", "webp", "avif", "tiff"}

\* what convertImage reports before its first await, imageConverter.ts 23 and 48
imageStartProgress == <<10, 50>>

\* POST /convert for an image input: the job is created and convertImage runs
\* up to `await ...toFile(outputPath)`; the response follows.
ConvertImage(filePath, outputFormat) ==
    LET jobId == freshJobId
        inputFormat == detectFileType(filePath)
        created == conversionJobs @@
                     (jobId :> NewJob(jobId, filePath, inputFormat, outputFormat, now[jobId]))
        reported == ReportAll(created, jobId, imageStartProgress)
    IN  /\ LoopIdle
        /\ CanStart
        /\ Validate(filePath, outputFormat).code = 200
        /\ adapterFor(inputFormat) = "image"
        /\ atReturn' = Snapshot(reported[jobId])
        /\ lastResp' = Started(jobId)
        /\ now' = [now EXCEPT ![jobId] = @ + 1]
        /\ IF imageFormatHandled(outputFormat)
           THEN /\ conversionJobs' = reported
                /\ pc' = [pc EXCEPT ![jobId] = "i_toFile"]
                /\ settled' = settled
           ELSE AdapterSettles(jobId, reported, Rejected("Unsupported output format"))
        /\ outFile' = [outFile EXCEPT ![jobId] = outputPathFor(cwd, filePath, outputFormat)]
        /\ UNCHANGED <<activeConversionProcesses, proc, vdur, vtime, cancelPc, files,
                       outputs, docVars, sseVars>>

\* sharp's toFile settles (imageConverter.ts 54-75)
ImageToFileDone(jobId, ok) ==
    LET outputPath == outFile[jobId]
        reported == IF ok THEN progressCallback(conversionJobs, jobId, 100)
                    ELSE conversionJobs
    IN  /\ LoopIdle
        /\ pc[jobId] = "i_toFile"
        /\ outputs' = IF ok THEN outputs \cup {outputPath} ELSE outputs
        /\ AdapterSettles(jobId, reported,
                          IF ok THEN Resolved(outputPath)
                          ELSE Rejected("Input file is missing or unreadable"))
        /\ UNCHANGED <<activeConversionProcesses, proc, vdur, vtime, cancelPc, files,
                       now, atReturn, docVars, outFile, sseVars>>
        /\ lastResp' = NoResp

\* ------------------------------------------------------ document adapter
\* dependencyCheck: the commands the converter looks for (ProgressBar.tsx 53-61)
Tools == {"pdftoppm", "pdfimages", "convert", "gs", "wkhtmltoimage", "zip", "tar", "gzip"}

\* The machines the service runs on: the commands `which` finds on each.
ToolProfiles ==
    { {},
      {"gs", "convert"},
      {"pdftoppm", "gs", "zip"},
      {"pdfimages", "wkhtmltoimage", "convert"} }

\* The command lines the converter runs with execSync, and the command of each.
toolOf ==
    [pdftoppm_png |-> "pdftoppm", pdftoppm_direct |-> "pdftoppm",
     pdftoppm_bulk |-> "pdftoppm", gs_pagecount |-> "gs", gs_render |-> "gs",
     convert |-> "convert", convert_gradient |-> "convert", convert_xc |-> "convert",
     pdfimages |-> "pdfimages", wkhtmltoimage |-> "wkhtmltoimage",
     zip |-> "zip", tar_gzip |-> "tar"]

\* the command lines that can succeed on a machine with the commands `avail`
Runnable(avail) == {c \in DOMAIN toolOf : toolOf[c] \in avail}

\* the command lines a conversion can still run once it has awaited a copy or a
\* write: the page count, the bulk extraction and method 1 lie before the first
\* one (documentConverter.ts 72, 193, 428)
Resumable(avail) == Runnable(avail) \ {"gs_pagecount", "pdftoppm_bulk", "pdftoppm_png"}

\* isCommandAvailable, ProgressBar.tsx 69-85: the first call asks the machine,
\* every later call answers from the cache
isCommandAvailable(cache, command) == command \in cache.available

\* the cache once the first `which` of a run has been made on machine `profile`
Probed(cache, profile) ==
    IF cache.probed THEN cache ELSE [probed |-> TRUE, available |-> profile]

\* Where a page conversion stands: the progress values it reported in this
\* turn, where it is suspended ("true"/"false": tryPdfToImageConversion
\* returned; "done": the page is finished), and whether a file now exists at
\* its output path.
R(cbs, at, made) == [cbs |-> cbs, at |-> at, made |-> made]
Then(cbs, r) == [r EXCEPT !.cbs = cbs \o @]

\* tryPdfToImageConversion, method 4: pdfimages (documentConverter.ts 585-641)
StageD(avail, works, outputFormat) ==
    IF "pdfimages" \notin avail THEN R(<<>>, "false", FALSE)
    ELSE IF "pdfimages" \notin works THEN R(<<60>>, "false", FALSE)
    ELSE IF outputFormat = "png" THEN R(<<60>>, "D_copy", FALSE)
    ELSE IF "convert" \in avail /\ "convert" \in works THEN R(<<60>>, "true", TRUE)
    ELSE R(<<60>>, "D_copy", FALSE)

\* method 3: Ghostscript (documentConverter.ts 542-583)
StageC(avail, works, outputFormat) ==
    IF "gs" \notin avail THEN StageD(avail, works, outputFormat)
    ELSE IF outputFormat \in {"jpg", "jpeg", "png"}
    THEN IF "gs_render" \in works THEN R(<<50>>, "true", TRUE)
         ELSE Then(<<50>>, StageD(avail, works, outputFormat))
    ELSE IF outputFormat = "webp" /\ "convert" \in avail
    THEN IF "gs_render" \notin works THEN Then(<<50>>, StageD(avail, works, outputFormat))
         ELSE IF "convert" \in works THEN R(<<50>>, "true", TRUE)
         ELSE R(<<50>>, "C_copy", FALSE)
    ELSE Then(<<50>>, StageD(avail, works, outputFormat))

\* variant: method 2 handing over to pdfimages when it fails, past Ghostscript
StageBSkippingGs(avail, works, outputFormat) ==
    IF "pdftoppm" \notin avail THEN StageD(avail, works, outputFormat)
    ELSE IF "pdftoppm_direct" \notin works
    THEN Then(<<40>>, StageD(avail, works, outputFormat))
    ELSE IF outputFormat \in {"png", "jpg", "jpeg"} THEN R(<<40, 70>>, "B_copy", FALSE)
    ELSE IF "convert" \in avail /\ "convert" \in works THEN R(<<40, 70>>, "true", TRUE)
    ELSE R(<<40, 70>>, "B_copy", FALSE)

\* method 2: pdftoppm writing the target format directly (documentConverter.ts 482-540)
StageB(avail, works, outputFormat) ==
    IF "pdftoppm" \notin avail THEN StageC(avail, works, outputFormat)
    ELSE IF "pdftoppm_direct" \notin works
    THEN Then(<<40>>, StageC(avail, works, outputFormat))
    ELSE IF outputFormat \in {"png", "jpg", "jpeg"} THEN R(<<40, 70>>, "B_copy", FALSE)
    ELSE IF "convert" \in avail /\ "convert" \in works THEN R(<<40, 70>>, "true", TRUE)
    ELSE R(<<40, 70>>, "B_copy", FALSE)

\* method 1: pdftoppm through an intermediate PNG (documentConverter.ts 428-480)
StageA(avail, works, outputFormat) ==
    IF "pdftoppm" \notin avail THEN StageB(avail, works, outputFormat)
    ELSE IF "pdftoppm_png" \notin works
    THEN Then(<<30>>, StageB(avail, works, outputFormat))
    ELSE IF outputFormat = "png" THEN R(<<30, 60>>, "A_copy", FALSE)
    ELSE IF "convert" \in avail /\ "convert" \in works THEN R(<<30, 60>>, "true", TRUE)
    ELSE R(<<30, 60>>, "A_copy", FALSE)

\* outputPath.replace(/\.webp$/i, '.png'), documentConverter.ts 575
gsFallbackTarget(outputPath) ==
    IF Len(outputPath.name) >= 2 /\ toLowerCase(outputPath.name[Len(outputPath.name)]) = "webp"
    THEN [outputPath EXCEPT !.name = Append(fileBaseName(outputPath), "png")]
    ELSE outputPath

\* createFallbackImage from its second method on (documentConverter.ts 743-778)
fallbackFromConvert(avail, works) ==
    IF "convert" \in avail /\ ({"convert_gradient", "convert_xc"} \cap works) # {}
    THEN R(<<>>, "done", TRUE)
    ELSE R(<<>>, "F_min", FALSE)

\* createFallbackImage up to its first await (documentConverter.ts 650-723)
createFallbackImage(avail, works) ==
    IF "wkhtmltoimage" \in avail THEN R(<<>>, "F_html", FALSE)
    ELSE fallbackFromConvert(avail, works)

\* A page conversion once tryPdfToImageConversion has returned or suspended:
\* `false` is followed by createFallbackImage (documentConverter.ts 111-113, 225-234).
pageRun(r, avail, works) ==
    IF r.at = "false" THEN Then(r.cbs, createFallbackImage(avail, works))
    ELSE IF r.at = "true" THEN [r EXCEPT !.at = "done"]
    ELSE r

\* The awaited copyFile or writeFile of a suspended page conversion settles
\* (ok: it succeeded) and the conversion runs on to its next await or its end.
pageResume(page, ok, avail, works, outputFormat, outputPath) ==
    CASE page.at = "A_copy" ->
             IF ok THEN R(<<>>, "done", TRUE)
             ELSE pageRun(StageB(avail, works, outputFormat), avail, works)
      [] page.at = "B_copy" ->
             IF ok THEN R(<<>>, "done", TRUE)
             ELSE pageRun(StageC(avail, works, outputFormat), avail, works)
      [] page.at = "C_copy" ->
             IF ok THEN R(<<>>, "done", gsFallbackTarget(outputPath) = outputPath)
             ELSE pageRun(StageD(avail, works, outputFormat), avail, works)
      [] page.at = "D_copy" ->
             IF ok THEN R(<<>>, "done", TRUE)
             ELSE pageRun(R(<<>>, "false", FALSE), avail, works)
      [] page.at = "F_html" ->
             IF ok /\ "wkhtmltoimage" \in works THEN R(<<>>, "done", TRUE)
             ELSE fallbackFromConvert(avail, works)
      [] page.at = "F_min" -> R(<<>>, "done", ok)
      [] OTHER -> page

\* processMultiPagePdf's progress window, documentConverter.ts 187-188
startProgress == 40
endProgress == 80

\* Math.min(Math.round(startProgress + i * progressStep + progress / 100 * progressStep),
\* endProgress) with progressStep = (endProgress - startProgress) / pageCount
\* (documentConverter.ts 189, 220-221)
pageProgress(i, pageCount, progress) ==
    LET num == (endProgress - startProgress) * (100 * i + progress)
        den == 100 * pageCount
        rounded == startProgress + (2 * num + den) \div (2 * den)
    IN  IF rounded < endProgress THEN rounded ELSE endProgress

\* what page i's callback hands to the job's progressCallback
mapPage(i, pageCount, cbs) ==
    [k \in 1..Len(cbs) |-> pageProgress(i, pageCount, cbs[k])]

\* the values the pages of a multi-page run report in one turn, page after page
RECURSIVE pagesReport(_, _)
pagesReport(pgs, upTo) ==
    IF upTo = 0 THEN <<>>
    ELSE pagesReport(pgs, upTo - 1) \o mapPage(upTo - 1, Len(pgs), pgs[upTo].cbs)

\* what is kept of a page between turns
Suspended(r) == [at |-> r.at, made |-> r.made]

AllDone(pgs) == \A i \in 1..Len(pgs) : pgs[i].at = "done"

\* join(tempDir, 'pages'), documentConverter.ts 57 and 178
extractDir(outputPath) == outputPath.dir \o "/temp/pages"

\* join(outputDir, `${fileBaseName}.zip`), documentConverter.ts 259
zipFilePath(outputPath) == [outputPath EXCEPT !.name = Append(fileBaseName(outputPath), "zip")]

\* createZipFromImagesUsingCmd once it has image files (documentConverter.ts 301-345):
\* where it stands at its return or its await, and process.cwd() by then
createZipFromImagesUsingCmd(avail, works, dir, imageDir) ==
    IF "zip" \in avail /\ "zip" \in works THEN [at |-> "zipped", cwd |-> dir]
    ELSE LET currentDir == IF "zip" \in avail THEN imageDir ELSE dir
         IN  IF {"tar", "gzip"} \subseteq avail
             THEN IF "tar_gzip" \in works THEN [at |-> "zipped", cwd |-> currentDir]
                  ELSE [at |-> "d_zip", cwd |-> imageDir]
             ELSE [at |-> "d_zip", cwd |-> currentDir]

\* The document task's turn from the point where its page conversions stand at
\* `pgs` (documentConverter.ts 84-153, 237-262): it stays suspended while a page
\* is, and otherwise packages the pages and settles.  `jobs` is the registry
\* after the progress the turn has reported so far, `existing` the output
\* files on disk by then.
DocumentContinues(jobId, jobs, pgs, avail, works, outputPath, existing) ==
    LET fb == createFallbackImage(avail, works)
        z == createZipFromImagesUsingCmd(avail, works, cwd, extractDir(outputPath))
        kept == [i \in 1..Len(pgs) |-> Suspended(pgs[i])]
    IN  IF ~AllDone(pgs)
        THEN /\ conversionJobs' = jobs
             /\ pages' = [pages EXCEPT ![jobId] = kept]
             /\ pc' = [pc EXCEPT ![jobId] = "d_pages"]
             /\ cwd' = cwd
             /\ outputs' = existing
             /\ settled' = settled
        ELSE IF Len(pgs) = 1
        THEN /\ pages' = [pages EXCEPT ![jobId] = <<>>]
             /\ outputs' = IF pgs[1].made THEN existing \cup {outputPath} ELSE existing
             /\ cwd' = cwd
             /\ AdapterSettles(jobId, progressCallback(jobs, jobId, 100),
                               Resolved(outputPath))
        ELSE IF \A i \in 1..Len(pgs) : ~pgs[i].made
        THEN \* 'No image files found to create zip': the inner catch's fallback
             /\ cwd' = cwd
             /\ IF fb.at = "done"
                THEN /\ pages' = [pages EXCEPT ![jobId] = <<>>]
                     /\ outputs' = IF fb.made THEN existing \cup {outputPath} ELSE existing
                     /\ AdapterSettles(jobId, progressCallback(jobs, jobId, 85),
                                       Resolved(outputPath))
                ELSE /\ conversionJobs' = progressCallback(jobs, jobId, 85)
                     /\ pages' = [pages EXCEPT ![jobId] = <<Suspended(fb)>>]
                     /\ pc' = [pc EXCEPT ![jobId] = "d_fallback"]
                     /\ outputs' = existing
                     /\ settled' = settled
        ELSE /\ cwd' = z.cwd
             /\ pages' = [pages EXCEPT ![jobId] = <<>>]
             /\ IF z.at = "zipped"
                THEN /\ outputs' = existing \cup {zipFilePath(outputPath)}
                     /\ AdapterSettles(jobId, ReportAll(jobs, jobId, <<85, 100>>),
                                       Resolved(zipFilePath(outputPath)))
                ELSE /\ conversionJobs' = progressCallback(jobs, jobId, 85)
                     /\ pc' = [pc EXCEPT ![jobId] = "d_zip"]
                     /\ outputs' = existing
                     /\ settled' = settled

\* the output formats convertDocument renders a PDF to, documentConverter.ts 47
imageFormats == <<"jpg", "jpeg", "png", "webp">>

\* POST /convert for PDF to PDF: convertDocument runs up to `await copyFile`
\* (documentConverter.ts 28-41); the response follows.
ConvertDocumentCopy(filePath, outputFormat) ==
    LET jobId == freshJobId
        inputFormat == detectFileType(filePath)
        created == conversionJobs @@
                     (jobId :> NewJob(jobId, filePath, inputFormat, outputFormat, now[jobId]))
        reported == progressCallback(created, jobId, 10)
    IN  /\ LoopIdle
        /\ CanStart
        /\ Validate(filePath, outputFormat).code = 200
        /\ adapterFor(inputFormat) = "document"
        /\ outputFormat = "pdf" /\ endsWithPdf(filePath)
        /\ conversionJobs' = reported
        /\ now' = [now EXCEPT ![jobId] = @ + 1]
        /\ pc' = [pc EXCEPT ![jobId] = "d_copy"]
        /\ outFile' = [outFile EXCEPT ![jobId] = outputPathFor(cwd, filePath, outputFormat)]
        /\ atReturn' = Snapshot(reported[jobId])
        /\ lastResp' = Started(jobId)
        /\ UNCHANGED <<activeConversionProcesses, proc, vdur, vtime, cancelPc, files,
                       outputs, docVars, settled, sseVars>>

\* the copy settles: progress 100 and the output path, or the copy's error
DocumentCopyDone(jobId, ok) ==
    LET outputPath == outFile[jobId]
        reported == IF ok THEN progressCallback(conversionJobs, jobId, 100)
                    ELSE conversionJobs
    IN  /\ LoopIdle
        /\ pc[jobId] = "d_copy"
        /\ outputs' = IF ok THEN outputs \cup {outputPath} ELSE outputs
        /\ AdapterSettles(jobId, reported,
                          IF ok THEN Resolved(outputPath) ELSE Rejected("copyFile failed"))
        /\ lastResp' = NoResp
        /\ UNCHANGED <<activeConversionProcesses, proc, vdur, vtime, cancelPc, files,
                       now, atReturn, docVars, outFile, sseVars>>

\* POST /convert for a document convertDocument has no conversion for
\* (documentConverter.ts 28, 157): it throws before any await, so the adapter
\* has settled when the handler returns.
ConvertDocumentUnsupported(filePath, outputFormat) ==
    LET jobId == freshJobId
        inputFormat == detectFileType(filePath)
        created == conversionJobs @@
                     (jobId :> NewJob(jobId, filePath, inputFormat, outputFormat, now[jobId]))
        reported == progressCallback(created, jobId, 10)
    IN  /\ LoopIdle
        /\ CanStart
        /\ Validate(filePath, outputFormat).code = 200
        /\ adapterFor(inputFormat) = "document"
        /\ ~endsWithPdf(filePath)
        /\ outFile' = [outFile EXCEPT ![jobId] = outputPathFor(cwd, filePath, outputFormat)]
        /\ atReturn' = Snapshot(reported[jobId])
        /\ lastResp' = Started(jobId)
        /\ now' = [now EXCEPT ![jobId] = @ + 1]
        /\ AdapterSettles(jobId, reported, Rejected("is not supported yet"))
        /\ UNCHANGED <<activeConversionProcesses, proc, vdur, vtime, cancelPc, files,
                       outputs, docVars, sseVars>>

\* Number of pages of the largest PDF.
MaxPages == 2

\* POST /convert for PDF to an image format: convertDocument runs until every
\* page conversion awaits a copy or a write, or to its end
\* (documentConverter.ts 28-153).  profile: the machine, asked on the first
\* isCommandAvailable of the run; works: the command lines that succeed in this
\* turn; pageCount: what Ghostscript counts.  The handler returns at the first
\* await, which is getPdfPageCount's when gs is available and
\* tryPdfToImageConversion's otherwise.
PdfToImageStarts(filePath, outputFormat, profile, works, pageCount) ==
    LET jobId == freshJobId
        outputPath == outputPathFor(cwd, filePath, outputFormat)
        inputFormat == detectFileType(filePath)
        cache == Probed(commandAvailability, profile)
        avail == cache.available
        created == conversionJobs @@
                     (jobId :> NewJob(jobId, filePath, inputFormat, outputFormat, now[jobId]))
        page == StageA(avail, works, outputFormat)
        extracted == "pdftoppm" \in avail /\ "pdftoppm_bulk" \in works
                     /\ outputFormat # "webp"
        pgs == [i \in 1..pageCount |->
                   IF pageCount > 1 /\ extracted THEN R(<<>>, "done", TRUE)
                   ELSE pageRun(page, avail, works)]
        started == <<10, 20, 30>>
        returned == IF isCommandAvailable(cache, "gs") THEN started
                    ELSE started \o page.cbs
        cbs == IF pageCount > 1
               THEN started \o <<startProgress>> \o pagesReport(pgs, pageCount)
               ELSE started \o pgs[1].cbs
    IN  /\ commandAvailability' = cache
        /\ outFile' = [outFile EXCEPT ![jobId] = outputPath]
        /\ atReturn' = Snapshot(ReportAll(created, jobId, returned)[jobId])
        /\ lastResp' = Started(jobId)
        /\ now' = [now EXCEPT ![jobId] = @ + 1]
        /\ DocumentContinues(jobId, ReportAll(created, jobId, cbs), pgs, avail, works,
                             outputPath, outputs)
        /\ UNCHANGED <<activeConversionProcesses, proc, vdur, vtime, cancelPc, files, sseVars>>

\* the machines the next first probe can find, and the page counts gs can report
Machines == IF commandAvailability.probed THEN {commandAvailability.available}
            ELSE ToolProfiles
PageCounts(works) == IF "gs_pagecount" \in works THEN 1..MaxPages ELSE {1}

ConvertPdfToImage(filePath, outputFormat) ==
    /\ LoopIdle
    /\ CanStart
    /\ Validate(filePath, outputFormat).code = 200
    /\ adapterFor(detectFileType(filePath)) = "document"
    /\ endsWithPdf(filePath) /\ Includes(imageFormats, outputFormat)
    /\ \E profile \in Machines :
          \E works \in SUBSET Runnable(profile) :
             \E pageCount \in PageCounts(works) :
                PdfToImageStarts(filePath, outputFormat, profile, works, pageCount)

\* the machines a service that has not looked for its commands yet can be on
AnyMachine == SUBSET Tools

\* the first PDF-to-image request of a service, on any machine
ConvertPdfToImageAnywhere(filePath, outputFormat) ==
    /\ LoopIdle
    /\ ~commandAvailability.probed
    /\ CanStart
    /\ Validate(filePath, outputFormat).code = 200
    /\ adapterFor(detectFileType(filePath)) = "document"
    /\ endsWithPdf(filePath) /\ Includes(imageFormats, outputFormat)
    /\ \E profile \in AnyMachine :
          \E works \in SUBSET Runnable(profile) :
             \E pageCount \in PageCounts(works) :
                PdfToImageStarts(filePath, outputFormat, profile, works, pageCount)

\* The copy or write page i of a PDF job awaits settles, the page conversion
\* runs on, and with it the document task (documentConverter.ts 99-135, 211-262).
PageIoSettles(jobId, i, ok, works) ==
    LET avail == commandAvailability.available
        job == conversionJobs[jobId]
        pgs == pages[jobId]
        single == Len(pgs) = 1
        r == pageResume(pgs[i], ok, avail, works, job.outputFormat, outFile[jobId])
        cbs == IF single THEN r.cbs ELSE mapPage(i - 1, Len(pgs), r.cbs)
        written == IF single /\ pgs[i].at = "C_copy" /\ ok
                   THEN {gsFallbackTarget(outFile[jobId])}
                   ELSE {}
    IN  /\ lastResp' = NoResp
        /\ DocumentContinues(jobId, ReportAll(conversionJobs, jobId, cbs),
                             [pgs EXCEPT ![i] = r], avail, works, outFile[jobId],
                             outputs \cup written)
        /\ UNCHANGED <<activeConversionProcesses, proc, vdur, vtime, cancelPc, files,
                       now, atReturn, commandAvailability, outFile, sseVars>>

PageIoDone(jobId, i, ok) ==
    /\ LoopIdle
    /\ pc[jobId] = "d_pages"
    /\ i \in 1..Len(pages[jobId])
    /\ pages[jobId][i].at # "done"
    /\ \E works \in SUBSET Resumable(commandAvailability.available) :
          PageIoSettles(jobId, i, ok, works)

\* createFallbackImage without the try/catch around its last write
\* (documentConverter.ts 771-776): a failed write leaves the inner catch as an
\* exception and convertDocument throws it
FallbackIoSettlesUncaught(jobId, ok, works) ==
    LET avail == commandAvailability.available
        job == conversionJobs[jobId]
        outputPath == outFile[jobId]
        r == pageResume(pages[jobId][1], ok, avail, works, job.outputFormat, outputPath)
    IN  /\ lastResp' = NoResp
        /\ IF r.at = "done"
           THEN /\ pages' = [pages EXCEPT ![jobId] = <<>>]
                /\ outputs' = IF r.made THEN outputs \cup {outputPath} ELSE outputs
                /\ AdapterSettles(jobId, conversionJobs,
                                  IF r.made THEN Resolved(outputPath)
                                  ELSE Rejected("writeFile failed"))
           ELSE /\ pages' = [pages EXCEPT ![jobId] = <<Suspended(r)>>]
                /\ UNCHANGED <<conversionJobs, pc, outputs, settled>>
        /\ UNCHANGED <<activeConversionProcesses, proc, vdur, vtime, cancelPc, files,
                       now, atReturn, commandAvailability, cwd, outFile, sseVars>>

\* The write the inner catch's createFallbackImage awaits settles
\* (documentConverter.ts 145-153): the task returns the fallback path.
FallbackIoSettles(jobId, ok, works) ==
    LET avail == commandAvailability.available
        job == conversionJobs[jobId]
        outputPath == outFile[jobId]
        r == pageResume(pages[jobId][1], ok, avail, works, job.outputFormat, outputPath)
    IN  /\ lastResp' = NoResp
        /\ IF r.at = "done"
           THEN /\ pages' = [pages EXCEPT ![jobId] = <<>>]
                /\ outputs' = IF r.made THEN outputs \cup {outputPath} ELSE outputs
                /\ AdapterSettles(jobId, conversionJobs, Resolved(outputPath))
           ELSE /\ pages' = [pages EXCEPT ![jobId] = <<Suspended(r)>>]
                /\ UNCHANGED <<conversionJobs, pc, outputs, settled>>
        /\ UNCHANGED <<activeConversionProcesses, proc, vdur, vtime, cancelPc, files,
                       now, atReturn, commandAvailability, cwd, outFile, sseVars>>

FallbackIoDone(jobId, ok) ==
    /\ LoopIdle
    /\ pc[jobId] = "d_fallback"
    /\ \E works \in SUBSET Resumable(commandAvailability.available) :
          FallbackIoSettles(jobId, ok, works)

\* createSimpleZip's stream finishes or fails (documentConverter.ts 381-389):
\* the task reports 100 and returns the zip path, or the inner catch's
\* fallback takes over.
ZipStreamSettles(jobId, ok, works) ==
    LET avail == commandAvailability.available
        outputPath == outFile[jobId]
        fb == createFallbackImage(avail, works)
    IN  /\ lastResp' = NoResp
        /\ IF ok
           THEN /\ pages' = pages
                /\ outputs' = outputs \cup {zipFilePath(outputPath)}
                /\ AdapterSettles(jobId, progressCallback(conversionJobs, jobId, 100),
                                  Resolved(zipFilePath(outputPath)))
           ELSE IF fb.at = "done"
           THEN /\ pages' = pages
                /\ outputs' = IF fb.made THEN outputs \cup {outputPath} ELSE outputs
                /\ AdapterSettles(jobId, conversionJobs, Resolved(outputPath))
           ELSE /\ pages' = [pages EXCEPT ![jobId] = <<Suspended(fb)>>]
                /\ pc' = [pc EXCEPT ![jobId] = "d_fallback"]
                /\ UNCHANGED <<conversionJobs, outputs, settled>>
        /\ UNCHANGED <<activeConversionProcesses, proc, vdur, vtime, cancelPc, files,
                       now, atReturn, commandAvailability, cwd, outFile, sseVars>>

ZipStreamDone(jobId, ok) ==
    /\ LoopIdle
    /\ pc[jobId] = "d_zip"
    /\ \E works \in SUBSET Resumable(commandAvailability.available) :
          ZipStreamSettles(jobId, ok, works)

\* ------------------------------------------------ POST /api/cancel/[jobId]
\* the record as the progress and cancel routes send it (part_005 31-41)
jobStatus(job) ==
    [jobId |-> job.jobId, status |-> job.status, progress |-> job.progress,
     originalFilename |-> job.originalFilename, inputFormat |-> job.inputFormat,
     outputFormat |-> job.outputFormat, error |-> job.error,
     createdAt |-> job.createdAt, completedAt |-> job.completedAt]

\* variant: the rejection of a terminal job's cancel also forgets its handle
CancelRejectedDroppingHandle(jobId) ==
    /\ LoopIdle
    /\ \/ /\ jobId \notin DOMAIN conversionJobs
          /\ lastResp' = [op |-> "cancel", code |-> 404, jobId |-> jobId,
                          message |-> "not found"]
       \/ /\ jobId \in DOMAIN conversionJobs
          /\ conversionJobs[jobId].status \in TerminalStatuses
          /\ lastResp' = [op |-> "cancel", code |-> 400, jobId |-> jobId,
                          message |-> "Job is already",
                          status |-> conversionJobs[jobId].status]
    /\ activeConversionProcesses' = activeConversionProcesses \ {jobId}
    /\ UNCHANGED <<conversionJobs, proc, vdur, vtime, pc, cancelPc, files, outputs,
                   now, atReturn, docVars, outFile, settled, sseVars>>

\* part_004 203-219: unknown job, or a job that is already terminal
CancelRejected(jobId) ==
    /\ LoopIdle
    /\ \/ /\ jobId \notin DOMAIN conversionJobs
          /\ lastResp' = [op |-> "cancel", code |-> 404, jobId |-> jobId,
                          message |-> "not found"]
       \/ /\ jobId \in DOMAIN conversionJobs
          /\ conversionJobs[jobId].status \in TerminalStatuses
          /\ lastResp' = [op |-> "cancel", code |-> 400, jobId |-> jobId,
                          message |-> "Job is already",
                          status |-> conversionJobs[jobId].status]
    /\ UNCHANGED <<conversionJobs, activeConversionProcesses, proc, vdur, vtime, pc,
                   cancelPc, files, outputs, now, atReturn,
                   docVars, outFile, settled, sseVars>>

\* variant: the cancel route storing a record it has rebuilt without the
\* file name
CancelledByRequestRenamed(job) ==
    [job EXCEPT !.status = "cancelled", !.originalFilename = <<"unknown">>]

\* variant: the cancel route leaving its status write for after its await
CancelledAfterUnlink(job) == job

\* the status write of the cancel route, part_004 236-239
CancelledByRequest(job) == [job EXCEPT !.status = "cancelled"]

\* the response of an accepted cancel, part_004 245-262
CancelResponse(job, processKilled, fileDeleted) ==
    [op |-> "cancel", code |-> 200, jobId |-> job.jobId,
     message |-> IF processKilled THEN "Conversion cancelled successfully"
                 ELSE "Job marked as cancelled, but process was not found",
     fileDeleted |-> fileDeleted, jobStatus |-> jobStatus(job)]

\* What process.kill() can do to the process behind a handle: end it, find
\* that it has already exited ('close' still to be delivered), or throw.
KillOutcomes == {"killed", "exited", "throws"}

\* part_004 221-243: kill the process if a handle is registered, write the
\* status, start deleteFile; without a file to delete the response follows in
\* the same turn.  midFlight notes whether the request found a video
\* conversion with progress between 1 and 99.
CancelAccepted(jobId, kill) ==
    LET found == jobId \in activeConversionProcesses
        processKilled == found /\ kill # "throws"
        jobs == [conversionJobs EXCEPT ![jobId] = CancelledByRequest(@)]
        midFlight == /\ pc[jobId] = "v_wait"
                     /\ proc[jobId] = "running"
                     /\ conversionJobs[jobId].progress \in 1..99
    IN  /\ LoopIdle
        /\ jobId \in DOMAIN conversionJobs
        /\ conversionJobs[jobId].status \notin TerminalStatuses
        /\ IF found THEN kill = "killed" => proc[jobId] = "running"
           ELSE kill = "killed"
        /\ proc' = IF found /\ kill = "killed"
                   THEN [proc EXCEPT ![jobId] = "killed"]
                   ELSE proc
        /\ activeConversionProcesses' =
               IF processKilled THEN activeConversionProcesses \ {jobId}
               ELSE activeConversionProcesses
        /\ conversionJobs' = jobs
        /\ IF DeleteStarts(jobs[jobId].inputPath)
           THEN /\ cancelPc' = [cancelPc EXCEPT ![jobId] =
                                   [at |-> "unlink", processKilled |-> processKilled,
                                    midFlight |-> midFlight]]
                /\ lastResp' = NoResp
           ELSE /\ cancelPc' = [cancelPc EXCEPT ![jobId] =
                                   [at |-> "returned", processKilled |-> processKilled,
                                    midFlight |-> midFlight]]
                /\ lastResp' = CancelResponse(jobs[jobId], processKilled, FALSE)
        /\ UNCHANGED <<vdur, vtime, pc, files, outputs, now, atReturn,
                       docVars, outFile, settled, sseVars>>

\* the cancel route's unlink completes and the response is sent from the record
\* as it is then (part_004 243-262); unlink fails when the file is already gone
CancelUnlinkDone(jobId) ==
    LET job == conversionJobs[jobId]
    IN  /\ LoopIdle
        /\ cancelPc[jobId].at = "unlink"
        /\ files' = files \ {job.inputPath}
        /\ cancelPc' = [cancelPc EXCEPT ![jobId].at = "returned"]
        /\ lastResp' = CancelResponse(job, cancelPc[jobId].processKilled,
                                      job.inputPath \in files)
        /\ UNCHANGED <<conversionJobs, activeConversionProcesses, proc, vdur, vtime, pc,
                       outputs, now, atReturn,
                   docVars, outFile, settled, sseVars>>

\* ----------------------------------------------- GET /api/progress/[jobId]
ProgressRequest(jobId) ==
    /\ LoopIdle
    /\ lastResp' = IF jobId \in DOMAIN conversionJobs
                   THEN [op |-> "progress", code |-> 200, jobId |-> jobId,
                         jobStatus |-> jobStatus(conversionJobs[jobId])]
                   ELSE [op |-> "progress", code |-> 404, jobId |-> jobId]
    /\ UNCHANGED <<conversionJobs, activeConversionProcesses, proc, vdur, vtime, pc,
                   cancelPc, files, outputs, now, atReturn,
                   docVars, outFile, settled, sseVars>>

\* variant: the download route without its existsSync check
DownloadResponseUnchecked(jobs, existing, jobId) ==
    IF jobId \notin DOMAIN jobs
    THEN [op |-> "download", code |-> 404, jobId |-> jobId, message |-> "not found"]
    ELSE IF jobs[jobId].status # "completed"
    THEN [op |-> "download", code |-> 400, jobId |-> jobId,
          message |-> "Conversion job is", status |-> jobs[jobId].status,
          progress |-> jobs[jobId].progress]
    ELSE [op |-> "download", code |-> 200, jobId |-> jobId,
          message |-> "attachment", filename |-> jobs[jobId].outputPath.name]

\* ----------------------------------------------- GET /api/download/[jobId]
\* part_006 21-95
DownloadResponse(jobs, existing, jobId) ==
    IF jobId \notin DOMAIN jobs
    THEN [op |-> "download", code |-> 404, jobId |-> jobId, message |-> "not found"]
    ELSE IF jobs[jobId].status # "completed"
    THEN [op |-> "download", code |-> 400, jobId |-> jobId,
          message |-> "Conversion job is", status |-> jobs[jobId].status,
          progress |-> jobs[jobId].progress]
    ELSE IF jobs[jobId].outputPath = NoPath \/ jobs[jobId].outputPath \notin existing
    THEN [op |-> "download", code |-> 404, jobId |-> jobId,
          message |-> "Converted file not found"]
    ELSE [op |-> "download", code |-> 200, jobId |-> jobId,
          message |-> "attachment", filename |-> jobs[jobId].outputPath.name]

DownloadRequest(jobId) ==
    /\ LoopIdle
    /\ lastResp' = DownloadResponse(conversionJobs, outputs, jobId)
    /\ UNCHANGED <<conversionJobs, activeConversionProcesses, proc, vdur, vtime, pc,
                   cancelPc, files, outputs, now, atReturn,
                   docVars, outFile, settled, sseVars>>

\* The handler's turn ends: its response has been handed to the server.
\* A caller puts both queries of the registry for one pair of formats, as the
\* convert route does at route.ts 189-190.
RegistryQuery(inputFormat, outputFormat) ==
    /\ LoopIdle
    /\ lastResp' = [op |-> "registry", inputFormat |-> inputFormat,
                    outputFormat |-> outputFormat,
                    supported |-> isConversionSupported(inputFormat, outputFormat),
                    formats |-> getPossibleOutputFormats(inputFormat)]
    /\ UNCHANGED <<conversionJobs, activeConversionProcesses, proc, vdur, vtime, pc,
                   cancelPc, files, outputs, now, atReturn,
                   docVars, outFile, settled, sseVars>>

\* the commands the conversion of one page looks for
PageTools == {"pdftoppm", "gs", "pdfimages", "convert", "wkhtmltoimage"}

\* the places where the conversion of one page starts or resumes a turn
PageTurns == {"start", "A_copy", "B_copy", "C_copy", "D_copy", "F_html", "F_min"}

\* One turn of the conversion of a single page, tryPdfToImageConversion
\* followed by createFallbackImage when it returned false
\* (documentConverter.ts 97-113): from its start, or from the copy or write it
\* awaited at `at`, which succeeded or not (ok).  The caller is handed where
\* the conversion stands at the end of the turn.
SinglePageTurn(at, ok, avail, works, outputFormat) ==
    LET outputPath == outputPathFor(cwd, CHOOSE f \in UploadedFiles : endsWithPdf(f),
                                    outputFormat)
        page == IF at = "start" THEN pageRun(StageA(avail, works, outputFormat), avail, works)
                ELSE pageResume(R(<<>>, at, FALSE), ok, avail, works, outputFormat, outputPath)
    IN  /\ LoopIdle
        /\ works \subseteq (IF at = "start" THEN Runnable(avail) ELSE Resumable(avail))
        /\ at = "start" => ok
        /\ lastResp' = [op |-> "page", at |-> at, ok |-> ok, avail |-> avail,
                        works |-> works, outputFormat |-> outputFormat, page |-> page]
        /\ UNCHANGED <<conversionJobs, activeConversionProcesses, proc, vdur, vtime, pc,
                       cancelPc, files, outputs, now, atReturn,
                       docVars, outFile, settled, sseVars>>

ResponseSent ==
    /\ lastResp # NoResp
    /\ settled = NotSettled
    /\ lastResp' = NoResp
    /\ atReturn' = NoResp
    /\ UNCHANGED <<conversionJobs, activeConversionProcesses, proc, vdur, vtime, pc,
                   cancelPc, files, outputs, now, docVars, outFile, settled, sseVars>>

\* ----------------------------------------------------------------- claims
\* the formats converter c lists as outputs, as a set
OutputSet(c) == {c.possibleOutputFormats[k] : k \in 1..Len(c.possibleOutputFormats)}

\* the Format Registry's output formats for an input format
RegistryOutputs(inputFormat) ==
    UNION {OutputSet(converters[i]) :
              i \in {n \in 1..Len(converters) :
                        Includes(converters[n].supportedInputFormats, inputFormat)}}

\* the elements of a sequence, and whether it lists none of them twice
Elements(seq) == {seq[k] : k \in 1..Len(seq)}
NoRepeats(seq) == \A a, b \in 1..Len(seq) : seq[a] = seq[b] => a = b

\* C1: terminal statuses are absorbing: once a job's status is completed,
\* failed or cancelled, no step of any flow changes it to another value.
C1_TerminalAbsorbing ==
    [][\A j \in DOMAIN conversionJobs :
          conversionJobs[j].status \in {"completed", "failed", "cancelled"}
              => conversionJobs'[j].status = conversionJobs[j].status]_vars

\* C2: when POST /convert returns the jobId, the new job's record has status
\* processing and progress 0, whichever adapter was selected, and the jobId was
\* not in the registry before the request.
C2_ReturnsFreshJobAtZero ==
    /\ [](atReturn # NoResp =>
             atReturn.status = "processing" /\ atReturn.progress = 0)
    /\ [][(atReturn = NoResp /\ atReturn' # NoResp) =>
             atReturn'.jobId \notin DOMAIN conversionJobs]_vars

\* C3: while a job's status is processing its progress never decreases: no
\* step that leaves the job processing stores a smaller progress than before.
C3_ProgressNonDecreasing ==
    [][\A j \in DOMAIN conversionJobs :
          (conversionJobs[j].status = "processing"
             /\ conversionJobs'[j].status = "processing")
              => conversionJobs'[j].progress >= conversionJobs[j].progress]_vars

\* C4: once a job is terminal its record is frozen: no later step changes its
\* progress, error, outputPath or completedAt (so two progress reads after the
\* terminal transition return the same record).
C4_FrozenOnceTerminal ==
    [][\A j \in DOMAIN conversionJobs :
          conversionJobs[j].status \in {"completed", "failed", "cancelled"}
              => /\ conversionJobs'[j].progress = conversionJobs[j].progress
                 /\ conversionJobs'[j].error = conversionJobs[j].error
                 /\ conversionJobs'[j].outputPath = conversionJobs[j].outputPath
                 /\ conversionJobs'[j].completedAt = conversionJobs[j].completedAt]_vars

\* C5: a cancel request for a processing job sets its status to cancelled and
\* leaves error unset, with or without a handle and whatever kill did, and the
\* response to the request reports status cancelled.
C5_CancelOfProcessingJob ==
    /\ [][\A j \in DOMAIN conversionJobs :
             (conversionJobs[j].status = "processing"
                /\ cancelPc[j].at = "idle" /\ cancelPc'[j].at # "idle")
                 => /\ conversionJobs'[j].status = "cancelled"
                    /\ conversionJobs'[j].error = NoError]_vars
    /\ []((lastResp.op = "cancel" /\ lastResp.code = 200) =>
             /\ lastResp.jobStatus.status = "cancelled"
             /\ lastResp.jobStatus.error = NoError)

\* C6: a cancel request for a job that is completed, failed or cancelled is
\* answered 400 'Job is already <status>' and mutates nothing: the job
\* registry, the handle table and the files on disk are as before, and no
\* cancellation is begun.
C6_CancelOfTerminalJobRejected ==
    [][\A j \in DOMAIN conversionJobs :
          conversionJobs[j].status \in {"completed", "failed", "cancelled"}
              => /\ cancelPc[j].at = "idle" => cancelPc'[j].at = "idle"
                 /\ (lastResp = NoResp /\ lastResp'.op = "cancel"
                       /\ lastResp'.jobId = j /\ cancelPc' = cancelPc)
                     => /\ lastResp'.code = 400
                        /\ lastResp'.message = "Job is already"
                        /\ lastResp'.status = conversionJobs[j].status
                        /\ conversionJobs' = conversionJobs
                        /\ activeConversionProcesses' = activeConversionProcesses
                        /\ files' = files]_vars

\* a second cancel is turned away while the first one's handle is still in the
\* table and its input file still on disk
C6_Witness ==
    \E j \in DOMAIN conversionJobs :
        /\ lastResp.op = "cancel" /\ lastResp.code = 400 /\ lastResp.jobId = j
        /\ lastResp.status = "cancelled"
        /\ j \in activeConversionProcesses
        /\ conversionJobs[j].inputPath \in files

\* C7: a video conversion cancelled in mid-flight (progress 1..99) ends, once
\* its background task and the cancel request have run to their ends, with
\* status cancelled, no error, its process not running and its input file gone.
C7_VideoCancelEndsCancelled ==
    \A j \in DOMAIN conversionJobs :
        (cancelPc[j].midFlight /\ cancelPc[j].at = "returned" /\ pc[j] = "done")
            => /\ conversionJobs[j].status = "cancelled"
               /\ conversionJobs[j].error = NoError
               /\ proc[j] # "running"
               /\ conversionJobs[j].inputPath \notin files

\* C8: once the flow that made a job terminal has finished its cleanup (the
\* background task after its deleteFile, the cancel request after its own),
\* the job's input file is not on disk.
C8_InputFileRemoved ==
    \A j \in DOMAIN conversionJobs :
        (pc[j] = "done" \/ cancelPc[j].at = "returned")
            => conversionJobs[j].inputPath \notin files

\* a completed job whose background task is through, its input file gone
C8_Witness ==
    \E j \in DOMAIN conversionJobs :
        /\ pc[j] = "done"
        /\ conversionJobs[j].status = "completed"
        /\ conversionJobs[j].inputPath \notin files
        /\ conversionJobs[j].inputPath \in UploadedFiles

\* C9: a start request with a missing field (400), a source file that does not
\* exist (404) or an unsupported pair (400, supportedFormats being the
\* registry's outputs for the input format) creates no job and launches no
\* adapter; every job that is created comes from a request that had both
\* fields, an existing file and a pair the registry lists.
C9_RejectedStartCreatesNothing ==
    /\ [][(lastResp = NoResp /\ lastResp'.op = "convert" /\ lastResp'.code # 200)
             => /\ conversionJobs' = conversionJobs
                /\ pc' = pc /\ proc' = proc /\ pages' = pages /\ outputs' = outputs
                /\ activeConversionProcesses' = activeConversionProcesses
                /\ lastResp'.code \in {400, 404}
                /\ "supportedFormats" \in DOMAIN lastResp'
                    => /\ lastResp'.code = 400
                       /\ Elements(lastResp'.supportedFormats)
                              = RegistryOutputs(lastResp'.inputFormat)
                       /\ NoRepeats(lastResp'.supportedFormats)]_vars
    /\ [][\A j \in DOMAIN conversionJobs' \ DOMAIN conversionJobs :
             /\ conversionJobs'[j].inputPath # NoPath
             /\ conversionJobs'[j].outputFormat # ""
             /\ conversionJobs'[j].inputPath \in files
             /\ conversionJobs'[j].outputFormat
                    \in RegistryOutputs(conversionJobs'[j].inputFormat)
             /\ lastResp'.op = "convert" /\ lastResp'.code = 200]_vars

\* gif to docx is turned away with gif's six output formats, a job being on record
C9_Witness ==
    /\ lastResp.op = "convert" /\ lastResp.code = 400
    /\ "inputFormat" \in DOMAIN lastResp
    /\ lastResp.inputFormat = "gif"
    /\ lastResp.supportedFormats = <<"jpg", "jpeg", "png", "webp", "avif", "tiff">>
    /\ conversionJobs # <<>>

\* C10: a download answers 200 with the artifact exactly when the job is
\* completed and its output file exists, 400 with the job's current progress
\* when the job is in another status, 404 when a completed job's file is
\* missing; it never changes the job registry.
C10_DownloadOnlyWhenCompleted ==
    /\ [](lastResp.op = "download" =>
            LET j == lastResp.jobId
            IN  /\ lastResp.code = 200 <=>
                      /\ j \in DOMAIN conversionJobs
                      /\ conversionJobs[j].status = "completed"
                      /\ conversionJobs[j].outputPath \in outputs
                /\ (j \in DOMAIN conversionJobs /\ conversionJobs[j].status # "completed")
                      => /\ lastResp.code = 400
                         /\ lastResp.progress = conversionJobs[j].progress
                /\ (j \in DOMAIN conversionJobs /\ conversionJobs[j].status = "completed"
                      /\ conversionJobs[j].outputPath \notin outputs)
                      => lastResp.code = 404)
    /\ [][(lastResp = NoResp /\ lastResp'.op = "download")
             => conversionJobs' = conversionJobs /\ outputs' = outputs]_vars

\* a completed job whose output file is not where the record says: 404
C10_Witness ==
    \E j \in DOMAIN conversionJobs :
        /\ lastResp.op = "download" /\ lastResp.code = 404 /\ lastResp.jobId = j
        /\ conversionJobs[j].status = "completed"
        /\ conversionJobs[j].outputPath \notin outputs


\* C11: every error of the background task becomes a terminal status: the step
\* that follows an adapter's settling is the finalization and leaves the job
\* terminal, no job is processing once its adapter call has ended, and every
\* input format the registry accepts has an adapter branch.
C11_AdapterEndMakesTerminal ==
    /\ [](\A j \in DOMAIN conversionJobs :
             pc[j] \in {"bg_unlink", "done"}
                 => conversionJobs[j].status \in {"completed", "failed", "cancelled"})
    /\ [][\A j \in DOMAIN conversionJobs :
             pc[j] = "settled"
                 => /\ pc'[j] \in {"bg_unlink", "done"}
                    /\ conversionJobs'[j].status \in {"completed", "failed", "cancelled"}]_vars
    /\ [](\A i \in 1..Len(converters) :
             \A k \in 1..Len(converters[i].supportedInputFormats) :
                 adapterFor(converters[i].supportedInputFormats[k]) # "none")

\* an adapter that threw (docx has no conversion) left its job failed, cleanup done
C11_Witness ==
    \E j \in DOMAIN conversionJobs :
        /\ pc[j] = "done"
        /\ conversionJobs[j].inputFormat = "docx"
        /\ conversionJobs[j].status = "failed"
        /\ conversionJobs[j].error = "is not supported yet"

\* C15: every job whose status is completed, failed or cancelled has
\* completedAt set, whichever flow made it terminal.
C15_TerminalHasCompletedAt ==
    \A j \in DOMAIN conversionJobs :
        conversionJobs[j].status \in {"completed", "failed", "cancelled"}
            => conversionJobs[j].completedAt # NoDate

\* C16: a job's error is set only if its status is failed: no cancelled,
\* completed or processing job has error populated.
C16_ErrorOnlyWhenFailed ==
    \A j \in DOMAIN conversionJobs :
        conversionJobs[j].error # NoError => conversionJobs[j].status = "failed"

\* a job whose cancel request has returned and whose adapter then failed:
\* it carries the error and is failed, not cancelled
C16_Witness ==
    \E j \in DOMAIN conversionJobs :
        /\ cancelPc[j].at = "returned"
        /\ pc[j] = "done"
        /\ conversionJobs[j].error # NoError
        /\ conversionJobs[j].status = "failed"

\* C17: every completed job has progress 100, completedAt set and outputPath
\* set, and the path is the one its adapter returned.
C17_CompletedRecord ==
    /\ [](\A j \in DOMAIN conversionJobs :
             conversionJobs[j].status = "completed"
                 => /\ conversionJobs[j].progress = 100
                    /\ conversionJobs[j].outputPath # NoPath
                    /\ conversionJobs[j].completedAt # NoDate)
    /\ [][\A j \in DOMAIN conversionJobs :
             (conversionJobs[j].status # "completed"
                /\ conversionJobs'[j].status = "completed")
                 => /\ settled.jobId = j
                    /\ settled.outcome.kind = "resolved"
                    /\ conversionJobs'[j].outputPath = settled.outcome.outputPath]_vars

\* a multi-page PDF completed with the zip archive its adapter returned
C17_Witness ==
    \E j \in DOMAIN conversionJobs :
        /\ conversionJobs[j].status = "completed"
        /\ conversionJobs[j].progress = 100
        /\ conversionJobs[j].outputPath = zipFilePath(outFile[j])
        /\ conversionJobs[j].outputPath \in outputs

\* C18: outputPath is set if and only if the job is completed, and it is
\* written once, by the step that makes the job completed.
C18_OutputPathIffCompleted ==
    /\ [](\A j \in DOMAIN conversionJobs :
             conversionJobs[j].outputPath # NoPath
                 <=> conversionJobs[j].status = "completed")
    /\ [][\A j \in DOMAIN conversionJobs :
             conversionJobs'[j].outputPath # conversionJobs[j].outputPath
                 => /\ conversionJobs[j].outputPath = NoPath
                    /\ conversionJobs[j].status # "completed"
                    /\ conversionJobs'[j].status = "completed"]_vars

\* one job completed with its output path, another failed without one
C18_Witness ==
    \E j, k \in DOMAIN conversionJobs :
        /\ conversionJobs[j].status = "completed"
        /\ conversionJobs[j].outputPath = outFile[j]
        /\ conversionJobs[k].status = "failed"
        /\ pc[k] = "done"
        /\ conversionJobs[k].outputPath = NoPath

\* C19: every job's progress is within 0..100 in every state, the video
\* adapter's ratio of elapsed time to duration included.
C19_ProgressWithinRange ==
    \A j \in DOMAIN conversionJobs :
        conversionJobs[j].progress \in 0..100

\* the value a 'data' chunk with a time= field publishes for job j in this step
timeChunkProgress(j) == videoProgress(vtime'[j], vdur[j])

\* what the streams hold after one publish of (j, p): the event on the stream
\* of every registered controller whose enqueue succeeds, nothing elsewhere
IsolatedDelivery(j, p) ==
    \A o \in Observers :
        enqueued'[o] = IF o \in activeControllers /\ stream[o] = "open"
                       THEN Append(enqueued[o], progressEvent(j, p))
                       ELSE enqueued[o]

\* C12: publish(jobId, progress) puts the event on the stream of every
\* registered observer whose delivery succeeds; a delivery that fails (the
\* observer's stream is no longer readable) leaves the other observers'
\* deliveries untouched and does not reach the caller: the video adapter's
\* stderr handler has written the progress, and its 'close' handler goes on to
\* resolve the adapter's promise with the output path.
C12_PublishIsolatesFailures ==
    [][\A j \in JobIds :
          /\ VideoTimeChunk(j)
                => /\ IsolatedDelivery(j, timeChunkProgress(j))
                   /\ conversionJobs'[j].progress = timeChunkProgress(j)
          /\ VideoClose(j, 0)
                => /\ IsolatedDelivery(j, 100)
                   /\ settled'.jobId = j
                   /\ settled'.outcome = Resolved(outFile[j])]_vars

\* a publish at 'close' with one registered observer whose stream has failed
\* and one that received the event, the adapter having resolved
C12_Witness ==
    \E j \in DOMAIN conversionJobs : \E o1, o2 \in activeControllers :
        /\ stream[o1] = "cancelled"
        /\ enqueued[o1] = <<>>
        /\ stream[o2] = "open"
        /\ enqueued[o2] = <<progressEvent(j, 100)>>
        /\ settled.jobId = j
        /\ settled.outcome.kind = "resolved"

\* the abort listener of observer o has run
Unsubscribed(o) == stream[o] # "none" /\ o \notin pingInterval

\* C13: an observer that is subscribed with its connection alive when
\* (jobId, progress) is published receives exactly one chunk for it, the
\* progress event with that jobId and that progress; once the observer's
\* connection has aborted it is not in the subscriber set, it stays
\* unsubscribed, and no publish and no ping puts anything on its stream.
C13_SubscriberReceivesUntilAbort ==
    /\ [][\A j \in JobIds : \A o \in Observers :
            (o \in activeControllers /\ stream[o] = "open")
                => /\ VideoTimeChunk(j)
                        => enqueued'[o] = <<progressEvent(j, timeChunkProgress(j))>>
                   /\ VideoClose(j, 0)
                        => enqueued'[o] = <<progressEvent(j, 100)>>]_vars
    /\ [](\A o \in Observers :
            Unsubscribed(o) => o \notin activeControllers /\ enqueued[o] = <<>>)
    /\ [][\A o \in Observers :
            Unsubscribed(o) => Unsubscribed(o)' /\ enqueued'[o] = <<>>]_vars

\* a publish that reached the observer still connected while the other one,
\* connected earlier and aborted since, got nothing
C13_Witness ==
    \E j \in DOMAIN conversionJobs : \E o1, o2 \in Observers :
        /\ Unsubscribed(o1)
        /\ stream[o1] = "closed"
        /\ enqueued[o1] = <<>>
        /\ o2 \in activeControllers
        /\ \E p \in 1..99 : enqueued[o2] = <<progressEvent(j, p)>>
        /\ conversionJobs[j].status = "processing"

\* C14: whenever an adapter's progress callback gives the record of a job a new
\* progress value, of whichever family the job is, every connected observer
\* gets the progress event with that jobId and that value in the same turn.
C14_EveryProgressWritePublished ==
    [][\A j \in DOMAIN conversionJobs' :
          (/\ settled.jobId # j
           /\ conversionJobs'[j].status = "processing"
           /\ conversionJobs'[j].progress #
                (IF j \in DOMAIN conversionJobs THEN conversionJobs[j].progress ELSE 0))
              => \A o \in activeControllers :
                    stream[o] = "open"
                        => /\ enqueued'[o] # <<>>
                           /\ enqueued'[o][Len(enqueued'[o])] =
                                progressEvent(j, conversionJobs'[j].progress)]_vars

\* job j renders a PDF to an image format
PdfToImage(j) ==
    /\ conversionJobs[j].inputFormat = "pdf"
    /\ Includes(imageFormats, conversionJobs[j].outputFormat)

\* C20: a PDF-to-image job never fails over its tools, whichever of the
\* commands the machine has and whichever of them fail when they are run: the
\* document adapter always settles by returning an output path (the page's, or
\* the zip's), never by throwing, the job is never failed, and once the
\* background task has handled the adapter's end the job is completed.
C20_PdfToImageNeverFails ==
    \A j \in DOMAIN conversionJobs :
        PdfToImage(j)
            => /\ conversionJobs[j].status # "failed"
               /\ settled.jobId = j
                    => /\ settled.outcome.kind = "resolved"
                       /\ settled.outcome.outputPath \in {outFile[j], zipFilePath(outFile[j])}
               /\ pc[j] \in {"bg_unlink", "done"}
                    => /\ conversionJobs[j].status = "completed"
                       /\ conversionJobs[j].error = NoError

\* a machine with every command installed on which every one of them failed
\* and the placeholder could not be written either: the job is completed with
\* an output path at which there is no file
C20_Witness ==
    \E j \in DOMAIN conversionJobs :
        /\ PdfToImage(j)
        /\ commandAvailability.available = Tools
        /\ pc[j] = "done"
        /\ conversionJobs[j].status = "completed"
        /\ conversionJobs[j].outputPath = outFile[j]
        /\ outFile[j] \notin outputs

\* C21: when plain file writes and copies succeed, the path a PDF-to-image
\* conversion returns has a file at it, for every target format, every set of
\* installed commands and every pattern of command failures: at the adapter's
\* return, and in the completed job a download then reads.
C21_ReturnedPathHasFile ==
    \A j \in DOMAIN conversionJobs :
        PdfToImage(j)
            => /\ (settled.jobId = j /\ settled.outcome.kind = "resolved")
                    => settled.outcome.outputPath \in outputs
               /\ conversionJobs[j].status = "completed"
                    => conversionJobs[j].outputPath \in outputs

\* the descriptive fields of a job record
Descriptive(job) ==
    <<job.jobId, job.originalFilename, job.inputPath, job.inputFormat,
      job.outputFormat, job.createdAt>>

\* C22: a job record, once created, stays in the registry with the jobId,
\* originalFilename, inputPath, inputFormat, outputFormat and createdAt it was
\* created with, whatever progress updates, finalizations and requests
\* follow; GET /progress/{jobId} for a created job answers 200 with those
\* fields.
C22_RecordKeptAndDescriptiveFieldsFixed ==
    /\ [][\A j \in JobIds :
            /\ j \in DOMAIN conversionJobs
                 => /\ j \in DOMAIN conversionJobs'
                    /\ Descriptive(conversionJobs'[j]) = Descriptive(conversionJobs[j])
            /\ (j \notin DOMAIN conversionJobs /\ j \in DOMAIN conversionJobs')
                 => /\ conversionJobs'[j].jobId = j
                    /\ conversionJobs'[j].originalFilename = conversionJobs'[j].inputPath.name
                    /\ conversionJobs'[j].inputFormat =
                          detectFileType(conversionJobs'[j].inputPath)
                    /\ conversionJobs'[j].createdAt = now[j]]_vars
    /\ [](\A j \in DOMAIN conversionJobs :
            (lastResp # NoResp /\ lastResp.op = "progress" /\ lastResp.jobId = j)
                => /\ lastResp.code = 200
                   /\ lastResp.jobStatus.jobId = j
                   /\ lastResp.jobStatus.originalFilename = conversionJobs[j].originalFilename
                   /\ lastResp.jobStatus.inputFormat = conversionJobs[j].inputFormat
                   /\ lastResp.jobStatus.outputFormat = conversionJobs[j].outputFormat
                   /\ lastResp.jobStatus.createdAt = conversionJobs[j].createdAt)

\* the progress of a job asked for after its cancel was accepted and its
\* adapter's end was handled: the answer names the uploaded file
C22_Witness ==
    \E j \in DOMAIN conversionJobs :
        /\ lastResp # NoResp /\ lastResp.op = "progress" /\ lastResp.jobId = j
        /\ lastResp.code = 200
        /\ cancelPc[j].at = "returned"
        /\ pc[j] = "done"
        /\ conversionJobs[j].inputPath \in UploadedFiles
        /\ lastResp.jobStatus.originalFilename = conversionJobs[j].inputPath.name

\* C23: the two queries of the Format Registry agree: for every input format
\* and output format, in the registry's vocabulary or not,
\* isConversionSupported(input, output) is true exactly when output is one
\* of getPossibleOutputFormats(input).
C23_RegistryQueriesAgree ==
    (lastResp # NoResp /\ lastResp.op = "registry")
        => (lastResp.supported <=> Includes(lastResp.formats, lastResp.outputFormat))

\* both queries put for pdf to webp, which the document converter lists, and
\* answered alike
C23_Witness ==
    /\ lastResp # NoResp /\ lastResp.op = "registry"
    /\ lastResp.inputFormat = "pdf" /\ lastResp.outputFormat = "webp"
    /\ lastResp.supported
    /\ Includes(lastResp.formats, "webp")

\* C24: once an accepted cancel request for a job has finished (its response
\* is built), the Active Process Handle table holds no entry for that job;
\* stated for the jobs whose external process did start.
C24_NoHandleAfterCancel ==
    \A j \in DOMAIN conversionJobs :
        (cancelPc[j].at = "returned" /\ proc[j] # "spawn_error")
            => j \notin activeConversionProcesses

\* the fields of job j's record that a step gives another value
Changed(j) ==
    {f \in DOMAIN conversionJobs[j] : conversionJobs'[j][f] # conversionJobs[j][f]}

\* C25: no update to a job is lost between the flows: every step that stores
\* the record of a job is one flow's own read-modify-write on the record as
\* it is then, so it changes only the fields this flow writes (the progress
\* callback: progress; the cancel request: status; the finalization: the
\* fields of its branch) and every field another flow wrote before keeps its
\* value.
C25_NoLostUpdate ==
    [][\A j \in DOMAIN conversionJobs :
          \/ Changed(j) \subseteq {"progress"}
          \/ /\ Changed(j) \subseteq {"status"}
             /\ conversionJobs'[j].status = "cancelled"
             /\ cancelPc[j].at = "idle" /\ cancelPc'[j].at # "idle"
          \/ /\ settled.jobId = j
             /\ Changed(j) \subseteq
                  (CASE settled.outcome.kind = "resolved" ->
                            {"status", "progress", "outputPath", "completedAt"}
                     [] settled.outcome.kind = "cancellation" -> {"status", "completedAt"}
                     [] OTHER -> {"status", "error"})]_vars

\* the three flows have written to one job: the callback its progress, the
\* cancel request (still awaiting its unlink) the status, the finalization
\* status and error, and the progress reported before is still there
C25_Witness ==
    \E j \in DOMAIN conversionJobs :
        /\ cancelPc[j].at = "unlink"
        /\ pc[j] \in {"bg_unlink", "done"}
        /\ conversionJobs[j].status = "failed"
        /\ conversionJobs[j].error # NoError
        /\ conversionJobs[j].progress \in 1..99

\* The cascade as the claim states it, for a turn that enters it at method k
\* (1: pdftoppm through a PNG, 2: pdftoppm direct, 3: Ghostscript,
\* 4: pdfimages): whether method k is tried, whether it succeeds, and the
\* progress values that mark its attempt and its success.
CascadeTries(k, avail) ==
    CASE k \in {1, 2} -> "pdftoppm" \in avail
      [] k = 3 -> "gs" \in avail
      [] OTHER -> "pdfimages" \in avail

CascadeSucceeds(k, avail, works, outputFormat) ==
    CASE k = 1 -> "pdftoppm_png" \in works
      [] k = 2 -> "pdftoppm_direct" \in works
      [] k = 3 -> /\ "gs_render" \in works
                  /\ outputFormat = "webp" => "convert" \in avail
      [] OTHER -> "pdfimages" \in works

CascadeMark(k) == <<<<30>>, <<40>>, <<50>>, <<60>>>>[k]
CascadeSuccessMark(k) == <<<<60>>, <<70>>, <<>>, <<>>>>[k]

\* the progress values of the methods tried from k on, in order, up to the
\* first that succeeds, and that method (0: none)
RECURSIVE CascadeFrom(_, _, _, _)
CascadeFrom(k, avail, works, outputFormat) ==
    IF k > 4 THEN [cbs |-> <<>>, won |-> 0]
    ELSE IF ~CascadeTries(k, avail) THEN CascadeFrom(k + 1, avail, works, outputFormat)
    ELSE IF CascadeSucceeds(k, avail, works, outputFormat)
    THEN [cbs |-> CascadeMark(k) \o CascadeSuccessMark(k), won |-> k]
    ELSE LET rest == CascadeFrom(k + 1, avail, works, outputFormat)
         IN  [rest EXCEPT !.cbs = CascadeMark(k) \o @]

\* the placeholder as the claim orders it: wkhtmltoimage (whose page is
\* written first), then ImageMagick, then the built-in bytes
PlaceholderFirst(avail, works) ==
    IF "wkhtmltoimage" \in avail THEN "F_html"
    ELSE IF "convert" \in avail /\ ({"convert_gradient", "convert_xc"} \cap works) # {}
    THEN "done"
    ELSE "F_min"

\* the method at which a turn enters the cascade (5: past its end)
EntryMethod(at, ok) ==
    CASE at = "start" -> 1
      [] at = "A_copy" /\ ~ok -> 2
      [] at = "B_copy" /\ ~ok -> 3
      [] at = "C_copy" /\ ~ok -> 4
      [] at = "D_copy" /\ ~ok -> 5
      [] OTHER -> 0

\* C26: in the conversion of a single page the methods are tried in the order
\* pdftoppm through a PNG, pdftoppm direct, Ghostscript, pdfimages; a method
\* whose command is not installed is skipped; the first method that succeeds
\* ends the cascade (nothing of a later method is reported, the page stands
\* at that method's copy or is done, and no placeholder is made); the
\* placeholder is made, wkhtmltoimage first, then ImageMagick, then the
\* built-in bytes, only when every method tried has failed.  A method whose
\* awaited copy fails counts as failed, and the cascade goes on after it.
C26_CascadeInFixedOrder ==
    (lastResp # NoResp /\ lastResp.op = "page")
        => LET r == lastResp
               k == EntryMethod(r.at, r.ok)
               e == CascadeFrom(k, r.avail, r.works, r.outputFormat)
               copies == <<"A_copy", "B_copy", "C_copy", "D_copy">>
           IN  /\ k # 0
                    => /\ r.page.cbs = e.cbs
                       /\ e.won # 0
                            => /\ r.page.at \in {"done", copies[e.won]}
                               /\ r.page.at = "done" => r.page.made
                       /\ e.won = 0
                            => /\ r.page.at = PlaceholderFirst(r.avail, r.works)
                               /\ r.page.at = "done" => r.page.made
               /\ (r.at \in {"A_copy", "B_copy", "C_copy", "D_copy"} /\ r.ok)
                    => r.page.at = "done" /\ r.page.cbs = <<>>
               /\ r.at = "F_html"
                    => r.page.at =
                         IF r.ok /\ "wkhtmltoimage" \in r.works THEN "done"
                         ELSE IF "convert" \in r.avail
                                 /\ ({"convert_gradient", "convert_xc"} \cap r.works) # {}
                         THEN "done"
                         ELSE "F_min"
               /\ r.at = "F_min" => r.page.at = "done" /\ r.page.made = r.ok

\* pdftoppm installed and failing both ways, Ghostscript rendering the page:
\* 30, 40 and 50 are reported, pdfimages (installed too) is not tried and the
\* page is done
C26_Witness ==
    /\ lastResp # NoResp /\ lastResp.op = "page"
    /\ lastResp.at = "start"
    /\ {"pdftoppm", "gs", "pdfimages"} \subseteq lastResp.avail
    /\ lastResp.works \cap {"pdftoppm_png", "pdftoppm_direct", "gs_render", "pdfimages"}
         = {"gs_render", "pdfimages"}
    /\ lastResp.outputFormat = "png"
    /\ lastResp.page.cbs = <<30, 40, 50>>
    /\ lastResp.page.at = "done"
    /\ lastResp.page.made

\* C27: at most one cancel request per job is accepted: from the turn that
\* accepts one on, the status is terminal at every turn boundary, the
\* acceptance is never repeated (the accepted request only goes on to its
\* response), and every other cancel request for the job is answered 400
\* 'Job is already <status>'.
C27_OneCancelAccepted ==
    /\ [](\A j \in DOMAIN conversionJobs :
            cancelPc[j].at # "idle" => conversionJobs[j].status \in TerminalStatuses)
    /\ [][\A j \in DOMAIN conversionJobs :
            cancelPc[j].at # "idle"
                => /\ \/ cancelPc'[j] = cancelPc[j]
                      \/ /\ cancelPc[j].at = "unlink"
                         /\ cancelPc'[j] = [cancelPc[j] EXCEPT !.at = "returned"]
                   /\ (/\ cancelPc'[j] = cancelPc[j]
                       /\ lastResp = NoResp /\ lastResp' # NoResp
                       /\ lastResp'.op = "cancel" /\ lastResp'.jobId = j)
                        => /\ lastResp'.code = 400
                           /\ lastResp'.message = "Job is already"
                           /\ lastResp'.status = conversionJobs[j].status]_vars

\* a second cancel request for a job, answered 'already cancelled' while the
\* accepted one is still awaiting its unlink
C27_Witness ==
    \E j \in DOMAIN conversionJobs :
        /\ cancelPc[j].at = "unlink"
        /\ lastResp # NoResp /\ lastResp.op = "cancel" /\ lastResp.jobId = j
        /\ lastResp.code = 400
        /\ lastResp.status = "cancelled"

\* the messages of a pair of formats no adapter implements
NotImplementedMessages ==
    {"is not implemented", "is not supported yet", "Unsupported output format"}

\* C28: every pair of formats the convert route accepts at validation is
\* dispatched to an adapter that implements it: no adapter of a created job
\* ends with 'is not implemented', 'is not supported yet' or 'Unsupported
\* output format', and no job carries such an error.
C28_AcceptedPairIsImplemented ==
    /\ settled.outcome.message \notin NotImplementedMessages
    /\ \A j \in DOMAIN conversionJobs :
          conversionJobs[j].error \notin NotImplementedMessages

\* C29: packaging the pages of a multi-page PDF leaves process.cwd() as it
\* was: no step, whichever packaging strategy ends createZipFromImagesUsingCmd
\* and whether the archiver commands succeed or fail, changes the working
\* directory of the server process.
C29_CwdUnchangedByPackaging == [][cwd' = cwd]_vars

\* C30: completed and failed are absorbing: once the status of a job is
\* completed or failed, no progress callback, finalization or cancel request
\* gives it another status; and a status that has left processing never is
\* pending or processing again.
C30_CompletedAndFailedAbsorbing ==
    [][\A j \in DOMAIN conversionJobs :
          /\ conversionJobs[j].status \in {"completed", "failed"}
                => conversionJobs'[j].status = conversionJobs[j].status
          /\ conversionJobs[j].status # "processing"
                => conversionJobs'[j].status \notin {"pending", "processing"}]_vars

\* a cancel request for a job that failed, refused with 'already failed',
\* the job still failed
C30_Witness ==
    \E j \in DOMAIN conversionJobs :
        /\ pc[j] = "done"
        /\ cancelPc[j].at = "idle"
        /\ conversionJobs[j].status = "failed"
        /\ lastResp # NoResp /\ lastResp.op = "cancel" /\ lastResp.jobId = j
        /\ lastResp.code = 400
        /\ lastResp.status = "failed"

\* ------------------------------------------------------------------- spec
Next ==
    \/ \E p \in RequestPaths, f \in RequestFormats : ConvertRejected(p, f)
    \/ \E p \in RequestPaths, f \in RequestFormats, s \in BOOLEAN : ConvertVideo(p, f, s)
    \/ \E p \in RequestPaths, f \in RequestFormats : ConvertImage(p, f)
    \/ \E j \in JobIds, d \in Durations : VideoDurationChunk(j, d)
    \/ \E j \in JobIds : VideoTimeChunk(j)
    \/ \E j \in JobIds, code \in {0, 1} : VideoClose(j, code)
    \/ \E j \in JobIds : VideoAborted(j)
    \/ \E j \in JobIds : VideoSpawnError(j)
    \/ \E j \in JobIds, ok \in BOOLEAN : ImageToFileDone(j, ok)
    \/ \E p \in RequestPaths, f \in RequestFormats : ConvertDocumentCopy(p, f)
    \/ \E p \in RequestPaths, f \in RequestFormats : ConvertDocumentUnsupported(p, f)
    \/ \E p \in RequestPaths, f \in RequestFormats : ConvertPdfToImage(p, f)
    \/ \E j \in JobIds, ok \in BOOLEAN : DocumentCopyDone(j, ok)
    \/ \E j \in JobIds, i \in 1..MaxPages, ok \in BOOLEAN : PageIoDone(j, i, ok)
    \/ \E j \in JobIds, ok \in BOOLEAN : FallbackIoDone(j, ok)
    \/ \E j \in JobIds, ok \in BOOLEAN : ZipStreamDone(j, ok)
    \/ \E j \in JobIds : BackgroundSettles(j)
    \/ \E j \in JobIds : BackgroundUnlinkDone(j)
    \/ \E j \in JobIds : CancelRejected(j)
    \/ \E j \in JobIds, k \in KillOutcomes : CancelAccepted(j, k)
    \/ \E j \in JobIds : CancelUnlinkDone(j)
    \/ \E j \in JobIds : ProgressRequest(j)
    \/ \E j \in JobIds : DownloadRequest(j)
    \/ ResponseSent

Spec == Init /\ [][Next]_vars

\* The adapters of the three families with clients on the progress stream.
NextSSE ==
    \/ \E p \in RequestPaths, f \in RequestFormats, s \in BOOLEAN : ConvertVideo(p, f, s)
    \/ \E j \in JobIds, d \in Durations : VideoDurationChunk(j, d)
    \/ \E j \in JobIds : VideoTimeChunk(j)
    \/ \E j \in JobIds, code \in {0, 1} : VideoClose(j, code)
    \/ \E j \in JobIds : VideoSpawnError(j)
    \/ \E p \in RequestPaths, f \in RequestFormats : ConvertImage(p, f)
    \/ \E j \in JobIds, ok \in BOOLEAN : ImageToFileDone(j, ok)
    \/ \E p \in RequestPaths, f \in RequestFormats : ConvertDocumentCopy(p, f)
    \/ \E j \in JobIds, ok \in BOOLEAN : DocumentCopyDone(j, ok)
    \/ \E j \in JobIds : BackgroundSettles(j)
    \/ \E j \in JobIds : BackgroundUnlinkDone(j)
    \/ ResponseSent
    \/ \E o \in Observers : Subscribe(o)
    \/ \E o \in Observers : StreamCancelled(o)
    \/ \E o \in Observers : Abort(o)
    \/ \E o \in Observers : Ping(o)
    \/ ChunksDelivered

SpecSSE == Init /\ [][NextSSE]_vars

\* The first PDF-to-image conversion on every machine: any subset of the
\* commands installed, any of the installed ones failing at any invocation.
NextTools ==
    \/ \E p \in RequestPaths, f \in RequestFormats : ConvertPdfToImageAnywhere(p, f)
    \/ \E j \in JobIds, i \in 1..MaxPages, ok \in BOOLEAN : PageIoDone(j, i, ok)
    \/ \E j \in JobIds, ok \in BOOLEAN : FallbackIoDone(j, ok)
    \/ \E j \in JobIds, ok \in BOOLEAN : ZipStreamDone(j, ok)
    \/ \E j \in JobIds : BackgroundSettles(j)
    \/ \E j \in JobIds : BackgroundUnlinkDone(j)
    \/ ResponseSent

SpecTools == Init /\ [][NextTools]_vars

\* The same conversions with every awaited copy and write succeeding.
NextWritesSucceed ==
    \/ \E p \in RequestPaths, f \in RequestFormats : ConvertPdfToImageAnywhere(p, f)
    \/ \E j \in JobIds, i \in 1..MaxPages : PageIoDone(j, i, TRUE)
    \/ \E j \in JobIds : FallbackIoDone(j, TRUE)
    \/ \E j \in JobIds : ZipStreamDone(j, TRUE)
    \/ \E j \in JobIds : BackgroundSettles(j)
    \/ \E j \in JobIds : BackgroundUnlinkDone(j)
    \/ ResponseSent

SpecWritesSucceed == Init /\ [][NextWritesSucceed]_vars

\* The Format Registry asked about every pair of formats.
NextRegistry ==
    \/ \E i \in FormatVocabulary, o \in FormatVocabulary : RegistryQuery(i, o)
    \/ ResponseSent

SpecRegistry == Init /\ [][NextRegistry]_vars

\* The conversion of a single page, turn by turn, on every machine.
NextSinglePage ==
    \/ /\ LoopIdle
       /\ \E at \in PageTurns, ok \in BOOLEAN, avail \in SUBSET PageTools :
             \E works \in SUBSET Runnable(avail) :
                \E f \in {imageFormats[k] : k \in 1..Len(imageFormats)} :
                   SinglePageTurn(at, ok, avail, works, f)
    \/ ResponseSent

SpecSinglePage == Init /\ [][NextSinglePage]_vars

====
